---- MODULE Spec2Model ----
(***************************************************************************)
(* JDA AI Project Portal: the front-end components (ProposalEditor,        *)
(* TeamDashboard, FileUpload, ClientPortal, ProtectedRoute) as state       *)
(* machines over their React state, the requests they have in flight and   *)
(* the proposal store they talk to.  Each component has its own            *)
(* specification; a component's specification leaves the other             *)
(* components' variables at their initial values.                          *)
(***************************************************************************)
EXTENDS Integers, Sequences, FiniteSets, TLC

VARIABLES
    \* --- authentication guide (localStorage, ProtectedRoute) ---
    lsAccessToken,      \* localStorage 'access_token' (NoToken when absent)
    lsRefreshToken,     \* localStorage 'refresh_token'
    lsUser,             \* localStorage 'user': the stored user's role, or Null
    issued,             \* number of token pairs the auth service has issued
    route,              \* the ProtectedRoute being rendered: its props
    rendered,           \* what ProtectedRoute returned for it
    lsToken,            \* localStorage 'token', the key the components read
    refreshCalls,       \* refreshAccessToken invocations awaiting their fetch
    refreshSeq,         \* number of refresh requests sent so far
    refreshResult,      \* <<>>, or <<v>> for the value the last invocation returned
    location,           \* window.location.href
    \* --- FileUpload ---
    files,              \* useState<UploadedFile[]>
    uploading,          \* useState(false)
    uploadError,        \* FileUpload's error state (<<>> for null, or the messages)
    success,            \* FileUpload's success state: <<>> (null), or <<n>> for
                        \* "Successfully uploaded n file(s)"
    batches,            \* uploadFiles invocations whose Promise.all is pending
    nextFileId,         \* source of the fresh ids given to accepted files
    posted,             \* files sent with POST /api/v1/files/upload so far, each
                        \* with the file_type form field sent along
    lastComplete,       \* the argument of the last onUploadComplete call
    \* --- proposal store (the API behind proposalService and fetch) ---
    srvStatus,          \* persisted status of each proposal
    srvContent,         \* persisted content of the proposal the editor shows
    \* --- ProposalEditor ---
    user,               \* useAuth().user: the user's role, or Null
    proposal,           \* useState<Proposal | null>
    loading,            \* useState(true)
    saving,             \* useState(false)
    editorError,        \* ProposalEditor's error state
    editMode,           \* useState(false)
    previewMode,        \* useState(false)
    sections,           \* useState<EditableSection[]>
    selectedSection,    \* useState<string | null>
    calls,              \* proposalService calls awaiting their continuation
    callSeq,            \* number of proposalService calls made so far
    addedSections,      \* number of sections added (ids section-${Date.now()})
    onStatusChangeCalls, \* number of onStatusChange calls made
    onSaveCalls,        \* number of onSave calls made
    \* --- TeamDashboard ---
    activeTab,          \* useState(0)
    dashboardData,      \* useState<DashboardOverview | null>: TRUE once loaded
    dashProposals,      \* TeamDashboard's proposals state
    dashLoading,        \* TeamDashboard's loading state
    dashError,          \* TeamDashboard's error state
    bulkUpdateDialogOpen, \* useState(false)
    selectedProposals,  \* useState<string[]>
    bulkOperation,      \* useState<BulkUpdateOperation>
    dashCalls,          \* TeamDashboard's fetches awaiting their continuation
    dashSeq,            \* number of fetches TeamDashboard has made
    statusFilter,       \* useState(''): the Status filter of the proposals tab
    assignDialogOpen,   \* useState(false)
    dashSelected,       \* TeamDashboard's selectedProposal state (NoRow: null)
    assignmentData,     \* useState<ProposalAssignment>
    \* --- ClientPortal ---
    viewer,             \* the client the browser's 'token' belongs to
    portalProps,        \* the props ClientPortal is rendered with
    portalProposals,    \* ClientPortal's proposals state
    portalSelected,     \* ClientPortal's selectedProposal state
    projectStatus,      \* useState<ProjectStatus | null>: the proposal it is of
    portalLoading,      \* ClientPortal's loading state
    portalError,        \* ClientPortal's error state
    portalTab,          \* ClientPortal's activeTab state
    portalCalls,        \* ClientPortal's fetches awaiting their continuation
    portalSeq,          \* number of fetches ClientPortal has made
    \* --- ProposalDatabaseInterface ---
    dbProposals,        \* its proposals state
    filteredProposals,  \* useState<ProposalSummary[]>
    dbLoading,          \* its loading state
    dbError,            \* its error state
    searchFilters,      \* useState<SearchFilters>: the status_filter it holds
    filterDialogOpen,   \* useState(false)
    comparisonDialogOpen, \* useState(false)
    dbSelected,         \* its selectedProposals state
    comparisonData,     \* <<>> (null), or <<proposals>>
    dbCalls,            \* its fetches awaiting their continuation
    dbSeq,              \* number of fetches it has made
    dbHandled           \* the responses its loadProposals has handled: id, ok

refreshVars == <<refreshCalls, refreshSeq, refreshResult, location>>

authVars == <<lsAccessToken, lsRefreshToken, lsUser, issued, route, rendered, lsToken,
              refreshVars>>

uploadVars == <<files, uploading, uploadError, success, batches, nextFileId,
                posted, lastComplete>>

storeVars == <<srvStatus, srvContent>>

editorVars == <<user, proposal, loading, saving, editorError, editMode, previewMode,
                sections, selectedSection, calls, callSeq, addedSections,
                onStatusChangeCalls, onSaveCalls>>

dashVars == <<activeTab, dashboardData, dashProposals, dashLoading, dashError,
              bulkUpdateDialogOpen, selectedProposals, bulkOperation, dashCalls, dashSeq,
              statusFilter, assignDialogOpen, dashSelected, assignmentData>>

\* What the handlers written before the filter and the assign dialog leave
\* alone.
dashExtra == <<statusFilter, assignDialogOpen, dashSelected, assignmentData>>

portalVars == <<viewer, portalProps, portalProposals, portalSelected, projectStatus,
                portalLoading, portalError, portalTab, portalCalls, portalSeq>>

dbVars == <<dbProposals, filteredProposals, dbLoading, dbError, searchFilters,
            filterDialogOpen, comparisonDialogOpen, dbSelected, comparisonData,
            dbCalls, dbSeq, dbHandled>>

vars == <<authVars, uploadVars, storeVars, editorVars, dashVars, portalVars, dbVars>>

\* What the actions of one component leave alone.
outsideAuth == <<uploadVars, storeVars, editorVars, dashVars, portalVars, dbVars>>
outsideUpload == <<authVars, storeVars, editorVars, dashVars, portalVars, dbVars>>
outsideEditor == <<authVars, uploadVars, dashVars, portalVars, dbVars>>
outsideDash == <<authVars, uploadVars, editorVars, portalVars, dbVars>>
outsideDb == <<authVars, uploadVars, editorVars, dashVars, portalVars>>
outsidePortal == <<authVars, uploadVars, editorVars, dashVars, dbVars>>

Null == "null"
NoToken == 0

\* The three roles of the portal.
Roles == {"client", "project_manager", "admin"}

\* ------------------------------------------------------------------------
\* Bounds of the model
\* ------------------------------------------------------------------------
MaxLogins == 3
MaxRefresh == 1     \* refresh requests sent over a run
MaxBatch == 2       \* files in one dropped or selected batch
MaxFileIds == 2     \* files accepted over a run
MaxCalls == 2       \* proposalService calls the editor's handlers start over a run
MaxRaceCalls == 3   \* the same, in the run of two status changes
MaxAdded == 1       \* sections added in the editor over a run
MaxAssignSeq == 5   \* the same, for the requests of the assign dialog
MaxDbCalls == 3     \* fetches ProposalDatabaseInterface makes over a run
MaxDashCalls == 3   \* fetches the dashboard's handlers start over a run
MaxPortalCalls == 3 \* fetches the portal's effects start over a run


\* ========================================================================
\* FileUpload
\* ========================================================================
\* Props.  maxFileSize and allowedTypes are the defaults of the component;
\* maxFiles is the value the parent passes (the default is 10).
maxFileSize == 52428800
maxFiles == 1
allowedTypes == {".jpg", ".jpeg", ".png", ".gif", ".bmp", ".webp", ".pdf", ".doc",
                 ".docx", ".txt", ".rtf", ".xls", ".xlsx", ".csv", ".ppt", ".pptx"}

\* A file name is the sequence of its '.'-separated segments, which is what
\* name.split('.') returns: "report.PDF" is <<"report", "PDF">>, "notes" is
\* <<"notes">>.
toLowerCase(seg) ==
    CASE seg = "PDF" -> "pdf"
      [] seg = "Transcript" -> "transcript"
      [] OTHER -> seg

\* filename.toLowerCase().includes('transcript'), segment by segment.
includesTranscript(name) ==
    \E i \in 1..Len(name) : toLowerCase(name[i]) \in {"transcript"}

\* name.toLowerCase().split('.').pop()
lastSegment(name) == toLowerCase(name[Len(name)])

\* The size the user guide gives as the limit of an image (10MB).
ImageMaxSize == 10485760

\* The files a user can drop or select.
FileCatalog ==
    { [name |-> <<"report", "PDF">>, size |-> maxFileSize],
      [name |-> <<"big", "pdf">>,    size |-> maxFileSize + 1],
      [name |-> <<"tool", "exe">>,   size |-> 1024],
      [name |-> <<"pdf">>,           size |-> 1024],
      [name |-> <<"transcript", "pdf">>, size |-> 1024],
      [name |-> <<"photo", "png">>,  size |-> ImageMaxSize + 1] }

\* A FileList of at most n files: the files of one drop or one selection are
\* distinct files.
BatchesOf(n) ==
    UNION { { b \in [1..k -> FileCatalog] :
                \A i, j \in 1..k : i # j => b[i] # b[j] } : k \in 1..n }

getFileType(name) ==
    LET extension == lastSegment(name) IN
    IF extension \in {"jpg", "jpeg", "png", "gif", "bmp", "webp"} THEN "image"
    ELSE IF extension \in {"xls", "xlsx", "csv"} THEN "spreadsheet"
    ELSE IF extension \in {"ppt", "pptx"} THEN "presentation"
    ELSE IF extension \in {"txt", "docx", "pdf"} /\ includesTranscript(name) THEN "transcript"
    ELSE "document"

validateFileNoSizeCheck(file, filesLength) ==
    LET extension == "." \o lastSegment(file.name) IN
    IF extension \notin allowedTypes THEN "type"
    ELSE IF filesLength >= maxFiles THEN "count"
    ELSE Null

\* validateFile: Null when the file passes, else which check refused it.
\* filesLength is files.length as the handler's closure sees it.
validateFile(file, filesLength) ==
    LET extension == "." \o lastSegment(file.name) IN
    IF file.size > maxFileSize THEN "size"
    ELSE IF extension \notin allowedTypes THEN "type"
    ELSE IF filesLength >= maxFiles THEN "count"
    ELSE Null

RECURSIVE SelectIdx(_, _, _)
\* The indices i of batch, in order from i on, whose file passes validateFile.
SelectIdx(batch, filesLength, i) ==
    IF i > Len(batch) THEN <<>>
    ELSE IF validateFile(batch[i], filesLength) = Null
         THEN <<i>> \o SelectIdx(batch, filesLength, i + 1)
         ELSE SelectIdx(batch, filesLength, i + 1)

\* errors.push(`${file.name}: ${validationError}`) for each refused file.
ValidationErrors(batch, filesLength) ==
    LET bad == SelectSeq([i \in 1..Len(batch) |-> i],
                         LAMBDA i : validateFile(batch[i], filesLength) # Null)
    IN [k \in 1..Len(bad) |->
            [name |-> batch[bad[k]].name,
             reason |-> validateFile(batch[bad[k]], filesLength)]]

\* The id the file service returns for an uploaded file (result.file_id).
ServerFileId(id) == 100 + id

\* handleFiles(fileList), with the uploadFiles call it makes: uploadFiles
\* runs to its first await inside the same event, so it sets uploading,
\* clears the error and sends one POST per accepted file.
handleFiles(batch) ==
    LET okIdx    == SelectIdx(batch, Len(files), 1)
        errors   == ValidationErrors(batch, Len(files))
        newFiles == [k \in 1..Len(okIdx) |->
                        [id |-> nextFileId + k,
                         filename |-> batch[okIdx[k]].name,
                         file_type |-> getFileType(batch[okIdx[k]].name),
                         file_size |-> batch[okIdx[k]].size,
                         status |-> "uploading",
                         progress |-> 0,
                         error_message |-> Null]]
        \* Array.from(fileList).filter(file => !validateFile(file))
        fileList == [k \in 1..Len(okIdx) |-> batch[okIdx[k]]]
    IN
    /\ nextFileId + Len(newFiles) <= MaxFileIds
    /\ IF Len(newFiles) > 0
       THEN /\ files' = files \o newFiles
            /\ uploading' = TRUE
            /\ uploadError' = <<>>
            /\ batches' = batches \cup
                 { [ids |-> [k \in 1..Len(newFiles) |-> newFiles[k].id],
                    pending |-> { newFiles[k].id : k \in 1..Len(newFiles) },
                    seen |-> files] }
            /\ posted' = posted \cup
                 { [name |-> fileList[k].name, size |-> fileList[k].size,
                    file_type |-> getFileType(fileList[k].name)] :
                   k \in 1..Len(fileList) }
            /\ nextFileId' = nextFileId + Len(newFiles)
       ELSE /\ uploadError' = IF Len(errors) > 0 THEN errors ELSE uploadError
            /\ UNCHANGED <<files, uploading, batches, posted, nextFileId>>
    /\ UNCHANGED <<success, lastComplete>>
    /\ UNCHANGED outsideUpload

\* A request settles with a success response, or it fails: !response.ok,
\* result.success false and a rejected fetch all end in the same catch.
UploadOutcomes == {"ok", "failed"}

ErrorMessage(outcome) == "Upload failed"

\* A settling that leaves the row of a failed upload as it is.
UploadSettlesLeavingFailed(b, id, outcome) ==
    LET updated == [k \in 1..Len(files) |->
                      IF files[k].id = id
                      THEN IF outcome = "ok"
                           THEN [files[k] EXCEPT !.status = "ready", !.progress = 100,
                                                 !.id = ServerFileId(id)]
                           ELSE files[k]
                      ELSE files[k]]
        left == b.pending \ {id}
        \* const completedFiles = files.filter(f => f.status === 'ready'),
        \* over the files the invocation's closure holds
        completedFiles == SelectSeq(b.seen, LAMBDA f : f.status = "ready")
    IN
    /\ b \in batches
    /\ id \in b.pending
    /\ files' = updated
    /\ IF left = {}
       THEN /\ batches' = batches \ {b}
            /\ uploading' = FALSE
            /\ lastComplete' = IF Len(completedFiles) > 0
                               THEN completedFiles
                               ELSE lastComplete
            /\ success' = <<Len(completedFiles)>>
       ELSE /\ batches' = (batches \ {b}) \cup {[b EXCEPT !.pending = left]}
            /\ UNCHANGED <<uploading, lastComplete, success>>
    /\ UNCHANGED <<uploadError, nextFileId, posted>>
    /\ UNCHANGED outsideUpload

\* One upload request of batch b settles with the given outcome; when it is
\* the last of the batch, the code after Promise.all runs too.
UploadSettles(b, id, outcome) ==
    LET updated == [k \in 1..Len(files) |->
                      IF files[k].id = id
                      THEN IF outcome = "ok"
                           THEN [files[k] EXCEPT !.status = "ready", !.progress = 100,
                                                 !.id = ServerFileId(id)]
                           ELSE [files[k] EXCEPT !.status = "error",
                                                 !.error_message = ErrorMessage(outcome)]
                      ELSE files[k]]
        left == b.pending \ {id}
        \* const completedFiles = files.filter(f => f.status === 'ready'),
        \* over the files the invocation's closure holds
        completedFiles == SelectSeq(b.seen, LAMBDA f : f.status = "ready")
    IN
    /\ b \in batches
    /\ id \in b.pending
    /\ files' = updated
    /\ IF left = {}
       THEN /\ batches' = batches \ {b}
            /\ uploading' = FALSE
            /\ lastComplete' = IF Len(completedFiles) > 0
                               THEN completedFiles
                               ELSE lastComplete
            /\ success' = <<Len(completedFiles)>>
       ELSE /\ batches' = (batches \ {b}) \cup {[b EXCEPT !.pending = left]}
            /\ UNCHANGED <<uploading, lastComplete, success>>
    /\ UNCHANGED <<uploadError, nextFileId, posted>>
    /\ UNCHANGED outsideUpload

\* removeFile(fileId): the delete button of a row, disabled while uploading.
removeFile(fileId) ==
    /\ \E k \in 1..Len(files) : files[k].id = fileId /\ files[k].status # "uploading"
    /\ files' = SelectSeq(files, LAMBDA f : f.id # fileId)
    /\ UNCHANGED <<uploading, uploadError, success, batches, nextFileId, posted,
                   lastComplete>>
    /\ UNCHANGED outsideUpload

\* clearAll: the Clear All button, shown when files.length > 0.
clearAll ==
    /\ Len(files) > 0
    /\ files' = <<>>
    /\ uploadError' = <<>>
    /\ success' = <<>>
    /\ UNCHANGED <<uploading, batches, nextFileId, posted, lastComplete>>
    /\ UNCHANGED outsideUpload

\* The error Alert's onClose.
DismissUploadError ==
    /\ uploadError # <<>>
    /\ uploadError' = <<>>
    /\ UNCHANGED <<files, uploading, success, batches, nextFileId, posted, lastComplete>>
    /\ UNCHANGED outsideUpload

InitUploadVars ==
    /\ files = <<>>
    /\ uploading = FALSE
    /\ uploadError = <<>>
    /\ success = <<>>
    /\ batches = {}
    /\ nextFileId = 0
    /\ posted = {}
    /\ lastComplete = <<>>


\* ========================================================================
\* Proposal store: the API behind proposalService (getProposal,
\* updateProposal, extractRequirements) and the dashboard endpoints
\* ========================================================================
ProposalStatuses == {"draft", "in_review", "approved", "sent", "accepted", "rejected"}

\* The allowed transitions: draft -> in_review -> approved -> sent ->
\* accepted / rejected.
Edges == { <<"draft", "in_review">>, <<"in_review", "approved">>,
           <<"approved", "sent">>, <<"sent", "accepted">>, <<"sent", "rejected">> }

TerminalStatuses == {"accepted", "rejected"}

PIDs == {1, 2}
EditorPid == 1      \* the proposalId prop of the mounted ProposalEditor

IsStaff(role) == role \in {"project_manager", "admin"}

\* Whether the store lets `role` move a proposal from status `from` to `to`.
TransitionAllowed(role, from, to) ==
    /\ <<from, to>> \in Edges
    /\ \/ IsStaff(role)
       \/ role = "client" /\ to \in TerminalStatuses

\* Whether the store lets `role` replace the content of a proposal in
\* status `status`.
ContentEditAllowed(role, status) ==
    IsStaff(role) /\ status \notin TerminalStatuses

\* ========================================================================
\* ProposalEditor
\* ========================================================================
\* Proposal content is an HTML string, held as the sequence of its pieces:
\* section start tags, the end tag, and runs of other markup.
SecOpenHeader == "<section class=\"header\">"
SecOpenAi     == "<section class=\"section ai-generated\">"
SecOpenPlain  == "<section class=\"section \">"
SecClose      == "</section>"
Newline       == "\n"

\* The pieces /<section[^>]*class="([^"]*)"[^>]*>/ matches.
IsSectionOpen(piece) == piece \in {SecOpenHeader, SecOpenAi, SecOpenPlain}

\* className.includes(word), className being the class attribute of tag.
classIncludes(tag, word) ==
    CASE tag = SecOpenHeader -> word = "header"
      [] tag = SecOpenAi     -> word \in {"section", "ai-generated"}
      [] tag = SecOpenPlain  -> word = "section"
      [] OTHER -> FALSE

HeadingTitle(piece) ==
    CASE piece = "<h1>Proposal</h1>" -> "Proposal"
      [] piece = "<h3>New Section</h3>" -> "New Section"
      [] OTHER -> Null

SetMin(S) == CHOOSE x \in S : \A y \in S : x <= y

\* extractSectionTitle: the text of the first heading, tags stripped.
extractSectionTitle(content) ==
    LET hs == { i \in 1..Len(content) : HeadingTitle(content[i]) # Null } IN
    IF hs = {} THEN "Untitled Section" ELSE HeadingTitle(content[SetMin(hs)])

RECURSIVE ParseFrom(_, _, _)
\* The matches of sectionRegex in content from piece i on; index counts them.
ParseFrom(content, i, index) ==
    LET n == Len(content)
        opens == { j \in i..n : /\ IsSectionOpen(content[j])
                                /\ \E k \in (j + 1)..n : content[k] = SecClose }
    IN
    IF opens = {} THEN <<>>
    ELSE LET j == SetMin(opens)
             k == SetMin({ k \in (j + 1)..n : content[k] = SecClose })
             sectionContent == SubSeq(content, j + 1, k - 1)
         IN <<[id |-> "section-" \o ToString(index),
               title |-> extractSectionTitle(sectionContent),
               content |-> sectionContent,
               editable |-> ~classIncludes(content[j], "header")
                            /\ ~classIncludes(content[j], "footer"),
               aiGenerated |-> classIncludes(content[j], "ai-generated")]>>
            \o ParseFrom(content, k + 1, index + 1)

parseContentIntoSections(content) ==
    LET parsed == ParseFrom(content, 1, 0) IN
    IF Len(parsed) > 0 THEN parsed
    ELSE <<[id |-> "main-content", title |-> "Main Content", content |-> content,
            editable |-> TRUE, aiGenerated |-> FALSE]>>

RECURSIVE JoinSections(_, _)
\* sections.map(section => `<section class="section ...">...</section>`)
\*         .join('\n'), from section i on.
JoinSections(secs, i) ==
    IF i > Len(secs) THEN <<>>
    ELSE <<IF secs[i].aiGenerated THEN SecOpenAi ELSE SecOpenPlain>>
         \o secs[i].content \o <<SecClose>>
         \o (IF i < Len(secs) THEN <<Newline>> ELSE <<>>)
         \o JoinSections(secs, i + 1)

\* The content the proposal starts with, the content a user types into a
\* section, the content of an added section, and the content the store
\* holds after requirements were extracted again.
InitialContent == <<SecOpenAi, "<h1>Proposal</h1>", SecClose>>
TypedContent == <<"<p>edited</p>">>
NewSectionContent == <<"<h3>New Section</h3>", "<p>Add your content here...</p>">>
ExtractedContent == <<SecOpenAi, "<p>requirements</p>", SecClose>>

NoProposal == [id |-> 0, status |-> Null, content |-> <<>>]

\* The proposal record the store returns.
Snapshot == [id |-> EditorPid, status |-> srvStatus[EditorPid], content |-> srvContent]

\* The users the editor is shown to (it tells a client from anyone else, so
\* one staff role stands for both), and the options of its status Select.
EditorUsers == {"client", "project_manager"}
EditorStatusOptions == {"draft", "in_review", "approved", "sent"}

NewCall(kind, newStatus, content) ==
    [id |-> callSeq + 1, kind |-> kind, newStatus |-> newStatus, content |-> content,
     stage |-> "sent", message |-> Null, data |-> NoProposal]

\* The component has rendered its controls: not the spinner, not the
\* "Proposal not found" alert.
ControlsShown == ~loading /\ proposal # NoProposal

\* ---- the store serves a call of the editor ----
\* A call may also fail on its way (fails); the model lets that happen to the
\* calls the store itself never refuses.
ServeCall(c, fails) ==
    /\ c \in calls
    /\ c.stage = "sent"
    /\ fails => c.kind \in {"load", "extract"}
    /\ LET ok(data) == [c EXCEPT !.stage = "ok", !.data = data]
           err(msg) == [c EXCEPT !.stage = "err", !.message = msg]
           done(r)  == calls' = (calls \ {c}) \cup {r}
       IN
       IF fails
       THEN done(err("NetworkError")) /\ UNCHANGED storeVars
       ELSE CASE c.kind = "load" ->
                   /\ done(ok(Snapshot))
                   /\ UNCHANGED storeVars
              [] c.kind = "status" ->
                   IF TransitionAllowed(user, srvStatus[EditorPid], c.newStatus)
                   THEN /\ srvStatus' = [srvStatus EXCEPT ![EditorPid] = c.newStatus]
                        /\ done(ok([Snapshot EXCEPT !.status = c.newStatus]))
                        /\ UNCHANGED srvContent
                   ELSE /\ done(err(IF IsStaff(user) THEN "InvalidTransition"
                                                      ELSE "PermissionDenied"))
                        /\ UNCHANGED storeVars
              [] c.kind = "save" ->
                   IF ContentEditAllowed(user, srvStatus[EditorPid])
                   THEN /\ srvContent' = c.content
                        /\ done(ok([Snapshot EXCEPT !.content = c.content]))
                        /\ UNCHANGED srvStatus
                   ELSE /\ done(err(IF IsStaff(user) THEN "ValidationError"
                                                      ELSE "PermissionDenied"))
                        /\ UNCHANGED storeVars
              [] OTHER ->  \* extractRequirements
                   IF IsStaff(user)
                   THEN /\ srvContent' = ExtractedContent
                        /\ done(ok(NoProposal))
                        /\ UNCHANGED srvStatus
                   ELSE /\ done(err("PermissionDenied"))
                        /\ UNCHANGED storeVars
    /\ UNCHANGED <<user, proposal, loading, saving, editorError, editMode, previewMode,
                   sections, selectedSection, callSeq, addedSections,
                   onStatusChangeCalls, onSaveCalls>>
    /\ UNCHANGED outsideEditor

\* ---- the client of a sent proposal accepts or rejects it ----
ClientDecision(p, decision) ==
    /\ TransitionAllowed("client", srvStatus[p], decision)
    /\ srvStatus' = [srvStatus EXCEPT ![p] = decision]
    /\ UNCHANGED <<srvContent, editorVars>>
    /\ UNCHANGED outsideEditor

\* ---- continuations: the code after each await ----
\* loadProposal after `await proposalService.getProposal(proposalId)`.
LoadReturns(c) ==
    /\ c \in calls /\ c.kind = "load" /\ c.stage # "sent"
    /\ calls' = calls \ {c}
    /\ loading' = FALSE
    /\ IF c.stage = "ok"
       THEN /\ proposal' = c.data
            /\ sections' = IF c.data.content # <<>>
                           THEN parseContentIntoSections(c.data.content)
                           ELSE sections
            /\ UNCHANGED editorError
       ELSE /\ editorError' = c.message
            /\ UNCHANGED <<proposal, sections>>
    /\ UNCHANGED <<user, saving, editMode, previewMode, selectedSection, callSeq,
                   addedSections, onStatusChangeCalls, onSaveCalls>>
    /\ UNCHANGED <<storeVars, outsideEditor>>

\* handleSave after `await proposalService.updateProposal(...)`.
SaveReturns(c) ==
    /\ c \in calls /\ c.kind = "save" /\ c.stage # "sent"
    /\ calls' = calls \ {c}
    /\ saving' = FALSE
    /\ IF c.stage = "ok"
       THEN /\ proposal' = c.data
            /\ editMode' = FALSE
            /\ onSaveCalls' = onSaveCalls + 1
            /\ UNCHANGED editorError
       ELSE /\ editorError' = c.message
            /\ UNCHANGED <<proposal, editMode, onSaveCalls>>
    /\ UNCHANGED <<user, loading, previewMode, sections, selectedSection, callSeq,
                   addedSections, onStatusChangeCalls>>
    /\ UNCHANGED <<storeVars, outsideEditor>>

\* A continuation that takes the requested status for applied whatever the
\* outcome of the call was.
StatusReturnsOptimistic(c) ==
    /\ c \in calls /\ c.kind = "status" /\ c.stage # "sent"
    /\ calls' = calls \ {c}
    /\ proposal' = [proposal EXCEPT !.status = c.newStatus]
    /\ onStatusChangeCalls' = onStatusChangeCalls + 1
    /\ editorError' = IF c.stage = "ok" THEN editorError ELSE c.message
    /\ UNCHANGED <<user, loading, saving, editMode, previewMode, sections,
                   selectedSection, callSeq, addedSections, onSaveCalls>>
    /\ UNCHANGED <<storeVars, outsideEditor>>

\* handleStatusChange after `await proposalService.updateProposal(...)`.
StatusReturns(c) ==
    /\ c \in calls /\ c.kind = "status" /\ c.stage # "sent"
    /\ calls' = calls \ {c}
    /\ IF c.stage = "ok"
       THEN /\ proposal' = c.data
            /\ onStatusChangeCalls' = onStatusChangeCalls + 1
            /\ UNCHANGED editorError
       ELSE /\ editorError' = c.message
            /\ UNCHANGED <<proposal, onStatusChangeCalls>>
    /\ UNCHANGED <<user, loading, saving, editMode, previewMode, sections,
                   selectedSection, callSeq, addedSections, onSaveCalls>>
    /\ UNCHANGED <<storeVars, outsideEditor>>

\* handleReExtractRequirements after `await extractRequirements(...)`: on
\* success it calls loadProposal, which runs to its own await.
ExtractReturns(c) ==
    /\ c \in calls /\ c.kind = "extract" /\ c.stage # "sent"
    /\ IF c.stage = "ok"
       THEN /\ calls' = (calls \ {c}) \cup {NewCall("load", Null, <<>>)}
            /\ callSeq' = callSeq + 1
            /\ loading' = TRUE
            /\ editorError' = Null
       ELSE /\ calls' = calls \ {c}
            /\ editorError' = c.message
            /\ loading' = FALSE
            /\ UNCHANGED callSeq
    /\ UNCHANGED <<user, proposal, saving, editMode, previewMode, sections,
                   selectedSection, addedSections, onStatusChangeCalls, onSaveCalls>>
    /\ UNCHANGED <<storeVars, outsideEditor>>

\* ---- UI handlers ----
\* The status Select (rendered unless user.role is 'client'): onChange fires
\* for an option other than the one shown.
StatusSelectShown == user # "client"

\* The status Select's onChange, up to the await; cap bounds the requests
\* of a run.  The Select stays enabled while a request is in flight and
\* shows proposal.status until a response replaces the proposal.
handleStatusChangeWithin(newStatus, cap) ==
    /\ ControlsShown
    /\ StatusSelectShown
    /\ newStatus \in EditorStatusOptions
    /\ newStatus # proposal.status
    /\ callSeq < cap
    /\ calls' = calls \cup {NewCall("status", newStatus, <<>>)}
    /\ callSeq' = callSeq + 1
    /\ UNCHANGED <<user, proposal, loading, saving, editorError, editMode, previewMode,
                   sections, selectedSection, addedSections, onStatusChangeCalls,
                   onSaveCalls>>
    /\ UNCHANGED <<storeVars, outsideEditor>>

handleStatusChange(newStatus) == handleStatusChangeWithin(newStatus, MaxCalls)

\* An Edit button that is enabled for every role.
EditButtonAlwaysEnabled == TRUE

\* The Edit button: disabled={user?.role === 'client'}.
EditButtonEnabled == user # "client"

ToggleEditMode ==
    /\ ControlsShown
    /\ EditButtonEnabled
    /\ editMode' = ~editMode
    /\ UNCHANGED <<user, proposal, loading, saving, editorError, previewMode, sections,
                   selectedSection, calls, callSeq, addedSections, onStatusChangeCalls,
                   onSaveCalls>>
    /\ UNCHANGED <<storeVars, outsideEditor>>

\* The Preview button (the preview it loads is read-only and not kept here).
TogglePreviewMode ==
    /\ ControlsShown
    /\ previewMode' = ~previewMode
    /\ UNCHANGED <<user, proposal, loading, saving, editorError, editMode, sections,
                   selectedSection, calls, callSeq, addedSections, onStatusChangeCalls,
                   onSaveCalls>>
    /\ UNCHANGED <<storeVars, outsideEditor>>

\* handleSave up to its await: the Save Changes button, rendered in edit
\* mode and disabled while saving.
handleSave ==
    /\ ControlsShown
    /\ editMode
    /\ ~saving
    /\ callSeq < MaxCalls
    /\ saving' = TRUE
    /\ editorError' = Null
    /\ calls' = calls \cup {NewCall("save", Null, JoinSections(sections, 1))}
    /\ callSeq' = callSeq + 1
    /\ UNCHANGED <<user, proposal, loading, editMode, previewMode, sections,
                   selectedSection, addedSections, onStatusChangeCalls, onSaveCalls>>
    /\ UNCHANGED <<storeVars, outsideEditor>>

\* addSection: the Add Section button, rendered in edit mode.
addSection ==
    /\ ControlsShown
    /\ editMode
    /\ addedSections < MaxAdded
    /\ LET newId == "section-t" \o ToString(addedSections + 1) IN
       /\ sections' = Append(sections,
                             [id |-> newId, title |-> "New Section",
                              content |-> NewSectionContent,
                              editable |-> TRUE, aiGenerated |-> FALSE])
       /\ selectedSection' = newId
    /\ addedSections' = addedSections + 1
    /\ UNCHANGED <<user, proposal, loading, saving, editorError, editMode, previewMode,
                   calls, callSeq, onStatusChangeCalls, onSaveCalls>>
    /\ UNCHANGED <<storeVars, outsideEditor>>

\* A row of the section list (edit mode) is clicked.
SelectSection(k) ==
    /\ ControlsShown
    /\ editMode
    /\ k \in 1..Len(sections)
    /\ selectedSection' = sections[k].id
    /\ UNCHANGED <<user, proposal, loading, saving, editorError, editMode, previewMode,
                   sections, calls, callSeq, addedSections, onStatusChangeCalls, onSaveCalls>>
    /\ UNCHANGED <<storeVars, outsideEditor>>

\* removeSection: the remove icon of an editable section (edit mode).
removeSection(k) ==
    /\ ControlsShown
    /\ editMode
    /\ k \in 1..Len(sections)
    /\ sections[k].editable
    /\ sections' = SelectSeq(sections, LAMBDA sec : sec.id # sections[k].id)
    /\ selectedSection' = IF selectedSection = sections[k].id THEN Null
                          ELSE selectedSection
    /\ UNCHANGED <<user, proposal, loading, saving, editorError, editMode, previewMode,
                   calls, callSeq, addedSections, onStatusChangeCalls, onSaveCalls>>
    /\ UNCHANGED <<storeVars, outsideEditor>>

\* updateSectionContent: typing in the text field of the selected section
\* (edit mode, not previewing).
updateSectionContent(newContent) ==
    /\ ControlsShown
    /\ editMode
    /\ ~previewMode
    /\ selectedSection # Null
    /\ sections' = [k \in 1..Len(sections) |->
                      IF sections[k].id = selectedSection
                      THEN [sections[k] EXCEPT !.content = newContent]
                      ELSE sections[k]]
    /\ UNCHANGED <<user, proposal, loading, saving, editorError, editMode, previewMode,
                   selectedSection, calls, callSeq, addedSections, onStatusChangeCalls,
                   onSaveCalls>>
    /\ UNCHANGED <<storeVars, outsideEditor>>

\* handleReExtractRequirements up to its await (rendered unless the user is a
\* client).
ReExtractShown == user # "client"

handleReExtractRequirements ==
    /\ ControlsShown
    /\ ReExtractShown
    /\ callSeq < MaxCalls
    /\ loading' = TRUE
    /\ calls' = calls \cup {NewCall("extract", Null, <<>>)}
    /\ callSeq' = callSeq + 1
    /\ UNCHANGED <<user, proposal, saving, editorError, editMode, previewMode, sections,
                   selectedSection, addedSections, onStatusChangeCalls, onSaveCalls>>
    /\ UNCHANGED <<storeVars, outsideEditor>>

InitStoreVars ==
    /\ srvStatus = [p \in PIDs |-> "draft"]
    /\ srvContent = InitialContent

\* The editor after mounting: loadProposal has run to its await.
InitEditorVars ==
    /\ user = "project_manager"
    /\ proposal = NoProposal
    /\ loading = TRUE
    /\ saving = FALSE
    /\ editorError = Null
    /\ editMode = FALSE
    /\ previewMode = FALSE
    /\ sections = <<>>
    /\ selectedSection = Null
    /\ calls = {[id |-> 1, kind |-> "load", newStatus |-> Null, content |-> <<>>,
                 stage |-> "sent", message |-> Null, data |-> NoProposal]}
    /\ callSeq = 1
    /\ addedSections = 0
    /\ onStatusChangeCalls = 0
    /\ onSaveCalls = 0

\* ========================================================================
\* TeamDashboard: the Proposals tab and the Bulk Update dialog
\* ========================================================================
\* The dialog's Operation Select stays at 'status_update' and the filters of
\* the tab stay at '' (their initial values).
\* The dashboard is a staff screen: its fetches carry a staff token.
DashboardRole == "project_manager"

TabValues == {0, 1, 2}          \* Overview, Proposals, Analytics

\* The options of the dialog's New Status Select.
BulkStatusOptions == {"draft", "in_review", "approved", "completed"}

\* update_data: {} is the record whose status is Null (key absent).
InitialBulkOperation ==
    [operation_type |-> "status_update", proposal_ids |-> <<>>,
     update_data |-> [status |-> Null]]

\* authorization is the token after "Bearer " in the request's header: what
\* localStorage.getItem('token') gave when the request was built.
\* id '' of a ProposalAssignment that names no proposal.
EmptyId == 0

InitialAssignmentData == [proposal_id |-> EmptyId, user_id |-> "", notes |-> ""]

\* selectedProposal === null
NoRow == [id |-> EmptyId, status |-> Null]

\* status_filter is the query parameter of a list request ("": not sent),
\* assignment the body of an assign request.
DashCall(id, kind, operation, filter, assignment, token) ==
    [id |-> id, kind |-> kind, operation |-> operation, stage |-> "sent",
     ok |-> FALSE, list |-> <<>>, success |-> FALSE, errors |-> <<>>,
     authorization |-> token, status_filter |-> filter, assignment |-> assignment]

NewDashCall(kind, operation) ==
    DashCall(dashSeq + 1, kind, operation,
             IF kind = "list" THEN statusFilter ELSE "",
             IF kind = "assign" THEN assignmentData ELSE InitialAssignmentData,
             lsToken)

\* The rows GET /api/v1/team-dashboard/proposals returns.
ProposalSummaries == [p \in 1..Cardinality(PIDs) |-> [id |-> p, status |-> srvStatus[p]]]

\* The rows it returns under ?status_filter=filter.
FilteredSummaries(filter) ==
    IF filter = "" THEN ProposalSummaries
    ELSE SelectSeq(ProposalSummaries, LAMBDA r : r.status = filter)

RECURSIVE BulkApply(_, _, _, _)
\* The store takes the proposals of a bulk status update one by one from the
\* i-th on: a proposal whose transition is allowed moves, any other stays
\* and adds an error.
BulkApply(ids, i, newStatus, st) ==
    IF i > Len(ids) THEN [status |-> st, errors |-> <<>>]
    ELSE LET p == ids[i]
             allowed == TransitionAllowed(DashboardRole, st[p], newStatus)
             rest == BulkApply(ids, i + 1, newStatus,
                               IF allowed THEN [st EXCEPT ![p] = newStatus] ELSE st)
         IN [status |-> rest.status,
             errors |-> (IF allowed THEN <<>>
                         ELSE <<ToString(p) \o ": InvalidTransition">>) \o rest.errors]

RECURSIVE Join(_, _)
\* errors.join(', ') from the i-th element on.
Join(strs, i) ==
    IF i > Len(strs) THEN ""
    ELSE strs[i] \o (IF i < Len(strs) THEN ", " ELSE "") \o Join(strs, i + 1)

\* The dashboard's page behind the dialog can be operated: the spinner is
\* gone and no modal dialog is open.
PageShown == ~dashLoading /\ ~bulkUpdateDialogOpen /\ ~assignDialogOpen

ProposalsTabShown == PageShown /\ activeTab = 1

\* ---- the store serves a fetch of the dashboard ----
\* fails: the request fails on its way (response.ok is false).
ServeDashCall(c, fails) ==
    /\ c \in dashCalls
    /\ c.stage = "sent"
    /\ LET done(r) == dashCalls' = (dashCalls \ {c}) \cup {[r EXCEPT !.stage = "done"]} IN
       IF fails
       THEN done(c) /\ UNCHANGED storeVars
       ELSE CASE c.kind = "overview" ->
                   done([c EXCEPT !.ok = TRUE]) /\ UNCHANGED storeVars
              [] c.kind = "list" ->
                   /\ done([c EXCEPT !.ok = TRUE,
                                     !.list = FilteredSummaries(c.status_filter)])
                   /\ UNCHANGED storeVars
              [] c.kind = "assign" ->
                   \* result.success: the body names a proposal and a user
                   /\ done([c EXCEPT !.ok = TRUE,
                                     !.success = (c.assignment.proposal_id \in PIDs
                                                  /\ c.assignment.user_id # "")])
                   /\ UNCHANGED storeVars
              [] OTHER ->  \* bulk-update
                   IF c.operation.update_data.status = Null
                   THEN done(c) /\ UNCHANGED storeVars
                   ELSE LET r == BulkApply(c.operation.proposal_ids, 1,
                                           c.operation.update_data.status, srvStatus)
                        IN /\ srvStatus' = r.status
                           /\ done([c EXCEPT !.ok = TRUE, !.success = (r.errors = <<>>),
                                             !.errors = r.errors])
                           /\ UNCHANGED srvContent
    /\ UNCHANGED <<activeTab, dashboardData, dashProposals, dashLoading, dashError,
                   bulkUpdateDialogOpen, selectedProposals, bulkOperation, dashSeq>>
    /\ UNCHANGED <<dashExtra, outsideDash>>

\* ---- continuations ----
\* loadDashboardData after its fetch.
OverviewReturns(c) ==
    /\ c \in dashCalls /\ c.kind = "overview" /\ c.stage = "done"
    /\ dashCalls' = dashCalls \ {c}
    /\ dashLoading' = FALSE
    /\ IF c.ok
       THEN dashboardData' = TRUE /\ UNCHANGED dashError
       ELSE dashError' = "Failed to load dashboard data" /\ UNCHANGED dashboardData
    /\ UNCHANGED <<activeTab, dashProposals, bulkUpdateDialogOpen, selectedProposals,
                   bulkOperation, dashSeq>>
    /\ UNCHANGED <<storeVars, dashExtra, outsideDash>>

\* loadProposals after its fetch.
ProposalsReturn(c) ==
    /\ c \in dashCalls /\ c.kind = "list" /\ c.stage = "done"
    /\ dashCalls' = dashCalls \ {c}
    /\ IF c.ok
       THEN dashProposals' = c.list /\ UNCHANGED dashError
       ELSE dashError' = "Failed to load proposals" /\ UNCHANGED dashProposals
    /\ UNCHANGED <<activeTab, dashboardData, dashLoading, bulkUpdateDialogOpen,
                   selectedProposals, bulkOperation, dashSeq>>
    /\ UNCHANGED <<storeVars, dashExtra, outsideDash>>

\* A continuation that empties the selection after a failure too.
BulkUpdateReturnsClearing(c) ==
    /\ c \in dashCalls /\ c.kind = "bulk" /\ c.stage = "done"
    /\ IF c.ok /\ c.success
       THEN /\ bulkUpdateDialogOpen' = FALSE
            /\ dashCalls' = (dashCalls \ {c}) \cup {NewDashCall("list", InitialBulkOperation)}
            /\ dashSeq' = dashSeq + 1
            /\ selectedProposals' = <<>>
            /\ bulkOperation' = InitialBulkOperation
            /\ UNCHANGED dashError
       ELSE /\ dashCalls' = dashCalls \ {c}
            /\ dashError' = IF c.ok
                            THEN "Bulk update completed with errors: " \o Join(c.errors, 1)
                            ELSE "Failed to perform bulk update"
            /\ selectedProposals' = <<>>
            /\ UNCHANGED <<bulkUpdateDialogOpen, bulkOperation, dashSeq>>
    /\ UNCHANGED <<activeTab, dashboardData, dashProposals, dashLoading>>
    /\ UNCHANGED <<storeVars, dashExtra, outsideDash>>

\* handleBulkUpdate after its fetch: on success it closes the dialog, calls
\* loadProposals (which runs to its own fetch) and resets the selection and
\* the form.
BulkUpdateReturns(c) ==
    /\ c \in dashCalls /\ c.kind = "bulk" /\ c.stage = "done"
    /\ IF c.ok /\ c.success
       THEN /\ bulkUpdateDialogOpen' = FALSE
            /\ dashCalls' = (dashCalls \ {c}) \cup {NewDashCall("list", InitialBulkOperation)}
            /\ dashSeq' = dashSeq + 1
            /\ selectedProposals' = <<>>
            /\ bulkOperation' = InitialBulkOperation
            /\ UNCHANGED dashError
       ELSE /\ dashCalls' = dashCalls \ {c}
            /\ dashError' = IF c.ok
                            THEN "Bulk update completed with errors: " \o Join(c.errors, 1)
                            ELSE "Failed to perform bulk update"
            /\ UNCHANGED <<bulkUpdateDialogOpen, selectedProposals, bulkOperation, dashSeq>>
    /\ UNCHANGED <<activeTab, dashboardData, dashProposals, dashLoading>>
    /\ UNCHANGED <<storeVars, dashExtra, outsideDash>>

\* ---- UI handlers ----
SetActiveTab(newValue) ==
    /\ PageShown
    /\ newValue \in TabValues
    /\ newValue # activeTab
    /\ activeTab' = newValue
    /\ UNCHANGED <<dashboardData, dashProposals, dashLoading, dashError,
                   bulkUpdateDialogOpen, selectedProposals, bulkOperation, dashCalls,
                   dashSeq>>
    /\ UNCHANGED <<storeVars, dashExtra, outsideDash>>

\* The error Alert's onClose.
DismissDashError ==
    /\ PageShown
    /\ dashError # Null
    /\ dashError' = Null
    /\ UNCHANGED <<activeTab, dashboardData, dashProposals, dashLoading,
                   bulkUpdateDialogOpen, selectedProposals, bulkOperation, dashCalls,
                   dashSeq>>
    /\ UNCHANGED <<storeVars, dashExtra, outsideDash>>

\* loadProposals up to its fetch: the Apply Filters button and the refresh
\* icon.  Of the filters, the Status Select is operated; the search field
\* is left empty and assignedToFilter has no control.
loadProposals ==
    /\ ProposalsTabShown
    /\ dashSeq < MaxDashCalls
    /\ dashCalls' = dashCalls \cup {NewDashCall("list", InitialBulkOperation)}
    /\ dashSeq' = dashSeq + 1
    /\ UNCHANGED <<activeTab, dashboardData, dashProposals, dashLoading, dashError,
                   bulkUpdateDialogOpen, selectedProposals, bulkOperation>>
    /\ UNCHANGED <<storeVars, dashExtra, outsideDash>>

\* The checkbox of row k.
ToggleRow(k) ==
    /\ ProposalsTabShown
    /\ k \in 1..Len(dashProposals)
    /\ LET pid == dashProposals[k].id
           checked == \E j \in 1..Len(selectedProposals) : selectedProposals[j] = pid
       IN selectedProposals' = IF checked
                               THEN SelectSeq(selectedProposals, LAMBDA x : x # pid)
                               ELSE Append(selectedProposals, pid)
    /\ UNCHANGED <<activeTab, dashboardData, dashProposals, dashLoading, dashError,
                   bulkUpdateDialogOpen, bulkOperation, dashCalls, dashSeq>>
    /\ UNCHANGED <<storeVars, dashExtra, outsideDash>>

\* The checkbox of the table head: it shows checked when as many proposals
\* are selected as are listed, and a click inverts what it shows.
ToggleAll ==
    /\ ProposalsTabShown
    /\ LET checked == Len(dashProposals) > 0
                      /\ Len(selectedProposals) = Len(dashProposals)
       IN selectedProposals' = IF checked THEN <<>>
                               ELSE [k \in 1..Len(dashProposals) |-> dashProposals[k].id]
    /\ UNCHANGED <<activeTab, dashboardData, dashProposals, dashLoading, dashError,
                   bulkUpdateDialogOpen, bulkOperation, dashCalls, dashSeq>>
    /\ UNCHANGED <<storeVars, dashExtra, outsideDash>>

\* The Bulk Update button: disabled={selectedProposals.length === 0}.
OpenBulkUpdateDialog ==
    /\ ProposalsTabShown
    /\ Len(selectedProposals) # 0
    /\ bulkUpdateDialogOpen' = TRUE
    /\ UNCHANGED <<activeTab, dashboardData, dashProposals, dashLoading, dashError,
                   selectedProposals, bulkOperation, dashCalls, dashSeq>>
    /\ UNCHANGED <<storeVars, dashExtra, outsideDash>>

\* The dialog's Cancel button and its onClose.
CloseBulkUpdateDialog ==
    /\ ~dashLoading
    /\ bulkUpdateDialogOpen
    /\ ~assignDialogOpen
    /\ bulkUpdateDialogOpen' = FALSE
    /\ UNCHANGED <<activeTab, dashboardData, dashProposals, dashLoading, dashError,
                   selectedProposals, bulkOperation, dashCalls, dashSeq>>
    /\ UNCHANGED <<storeVars, dashExtra, outsideDash>>

\* The dialog's New Status Select (shown for operation_type status_update).
SetBulkStatus(value) ==
    /\ ~dashLoading
    /\ bulkUpdateDialogOpen
    /\ bulkOperation.operation_type = "status_update"
    /\ value \in BulkStatusOptions
    /\ value # bulkOperation.update_data.status
    /\ bulkOperation' = [bulkOperation EXCEPT !.update_data.status = value]
    /\ UNCHANGED <<activeTab, dashboardData, dashProposals, dashLoading, dashError,
                   bulkUpdateDialogOpen, selectedProposals, dashCalls, dashSeq>>
    /\ UNCHANGED <<storeVars, dashExtra, outsideDash>>

\* handleBulkUpdate up to its fetch: the dialog's Update button.
handleBulkUpdate ==
    /\ ~dashLoading
    /\ bulkUpdateDialogOpen
    /\ dashSeq < MaxDashCalls
    /\ LET operation == [bulkOperation EXCEPT !.proposal_ids = selectedProposals] IN
       dashCalls' = dashCalls \cup {NewDashCall("bulk", operation)}
    /\ dashSeq' = dashSeq + 1
    /\ UNCHANGED <<activeTab, dashboardData, dashProposals, dashLoading, dashError,
                   bulkUpdateDialogOpen, selectedProposals, bulkOperation>>
    /\ UNCHANGED <<storeVars, dashExtra, outsideDash>>

\* ---- the Status filter and the assign dialog ----
StatusFilterOptions == {"", "draft", "in_review", "approved", "completed"}

\* The Status filter Select of the proposals tab.
SetStatusFilter(value) ==
    /\ ProposalsTabShown
    /\ value \in StatusFilterOptions
    /\ value # statusFilter
    /\ statusFilter' = value
    /\ UNCHANGED <<activeTab, dashboardData, dashProposals, dashLoading, dashError,
                   bulkUpdateDialogOpen, selectedProposals, bulkOperation, dashCalls,
                   dashSeq, assignDialogOpen, dashSelected, assignmentData>>
    /\ UNCHANGED <<storeVars, outsideDash>>

\* The Assign icon of row k.
AssignRow(k) ==
    /\ ProposalsTabShown
    /\ k \in 1..Len(dashProposals)
    /\ dashSelected' = dashProposals[k]
    /\ assignmentData' = [assignmentData EXCEPT !.proposal_id = dashProposals[k].id]
    /\ assignDialogOpen' = TRUE
    /\ UNCHANGED <<activeTab, dashboardData, dashProposals, dashLoading, dashError,
                   bulkUpdateDialogOpen, selectedProposals, bulkOperation, dashCalls,
                   dashSeq, statusFilter>>
    /\ UNCHANGED <<storeVars, outsideDash>>

\* The toolbar's Assign button: disabled={!selectedProposal}.
OpenAssignDialog ==
    /\ ProposalsTabShown
    /\ dashSelected # NoRow
    /\ assignDialogOpen' = TRUE
    /\ UNCHANGED <<activeTab, dashboardData, dashProposals, dashLoading, dashError,
                   bulkUpdateDialogOpen, selectedProposals, bulkOperation, dashCalls,
                   dashSeq, statusFilter, dashSelected, assignmentData>>
    /\ UNCHANGED <<storeVars, outsideDash>>

\* The assign dialog's Cancel button and its onClose.
CloseAssignDialog ==
    /\ ~dashLoading
    /\ assignDialogOpen
    /\ assignDialogOpen' = FALSE
    /\ UNCHANGED <<activeTab, dashboardData, dashProposals, dashLoading, dashError,
                   bulkUpdateDialogOpen, selectedProposals, bulkOperation, dashCalls,
                   dashSeq, statusFilter, dashSelected, assignmentData>>
    /\ UNCHANGED <<storeVars, outsideDash>>

Assignees == {"user1", "user2", "user3"}

\* The assign dialog's User Select.
SetAssignee(value) ==
    /\ ~dashLoading
    /\ assignDialogOpen
    /\ value \in Assignees
    /\ value # assignmentData.user_id
    /\ assignmentData' = [assignmentData EXCEPT !.user_id = value]
    /\ UNCHANGED <<activeTab, dashboardData, dashProposals, dashLoading, dashError,
                   bulkUpdateDialogOpen, selectedProposals, bulkOperation, dashCalls,
                   dashSeq, statusFilter, assignDialogOpen, dashSelected>>
    /\ UNCHANGED <<storeVars, outsideDash>>

\* handleAssignProposal up to its fetch: the assign dialog's Assign button.
handleAssignProposal ==
    /\ ~dashLoading
    /\ assignDialogOpen
    /\ dashSeq < MaxAssignSeq
    /\ dashCalls' = dashCalls \cup {NewDashCall("assign", InitialBulkOperation)}
    /\ dashSeq' = dashSeq + 1
    /\ UNCHANGED <<activeTab, dashboardData, dashProposals, dashLoading, dashError,
                   bulkUpdateDialogOpen, selectedProposals, bulkOperation,
                   statusFilter, assignDialogOpen, dashSelected, assignmentData>>
    /\ UNCHANGED <<storeVars, outsideDash>>

\* handleAssignProposal after its fetch: on success it closes the dialog,
\* calls loadProposals (which runs to its own fetch) and resets the form.
AssignReturns(c) ==
    /\ c \in dashCalls /\ c.kind = "assign" /\ c.stage = "done"
    /\ IF c.ok /\ c.success
       THEN /\ assignDialogOpen' = FALSE
            /\ dashCalls' = (dashCalls \ {c}) \cup {NewDashCall("list", InitialBulkOperation)}
            /\ dashSeq' = dashSeq + 1
            /\ assignmentData' = InitialAssignmentData
            /\ UNCHANGED dashError
       ELSE /\ dashCalls' = dashCalls \ {c}
            /\ dashError' = IF c.ok THEN "Assignment failed"
                            ELSE "Failed to assign proposal"
            /\ UNCHANGED <<assignDialogOpen, assignmentData, dashSeq>>
    /\ UNCHANGED <<activeTab, dashboardData, dashProposals, dashLoading,
                   bulkUpdateDialogOpen, selectedProposals, bulkOperation,
                   statusFilter, dashSelected>>
    /\ UNCHANGED <<storeVars, outsideDash>>

\* The dashboard after mounting: loadDashboardData and loadProposals have
\* run to their fetches.
InitDashVars ==
    /\ activeTab = 0
    /\ dashboardData = FALSE
    /\ dashProposals = <<>>
    /\ dashLoading = TRUE
    /\ dashError = Null
    /\ bulkUpdateDialogOpen = FALSE
    /\ selectedProposals = <<>>
    /\ bulkOperation = InitialBulkOperation
    /\ dashCalls = {DashCall(1, "overview", InitialBulkOperation, "",
                              InitialAssignmentData, NoToken),
                     DashCall(2, "list", InitialBulkOperation, "",
                              InitialAssignmentData, NoToken)}
    /\ dashSeq = 2
    /\ statusFilter = ""
    /\ assignDialogOpen = FALSE
    /\ dashSelected = NoRow
    /\ assignmentData = InitialAssignmentData

\* ========================================================================
\* ClientPortal
\* ========================================================================
\* Who the store has assigned each proposal to, the share token of each
\* proposal, and the share links each client has been given: both proposals
\* are c1's, and c2 holds a link to the first of them.
Clients == {"c1", "c2"}
ClientOf == [p \in PIDs |-> "c1"]
ShareTokenOf == [p \in PIDs |-> IF p = 1 THEN "share-1" ELSE "share-2"]
HeldTokens == [c \in Clients |-> IF c = "c1" THEN {} ELSE {"share-1"}]

\* The props a parent renders the portal with for the client `c`: the
\* client's id when the access is authenticated and none when it is public,
\* and in either mode no share link, one the client holds, or a mistyped one.
PortalPropsOf(c) ==
    { props \in [clientId : {c, Null},
                 shareToken : HeldTokens[c] \cup {"bogus", Null},
                 isPublicAccess : BOOLEAN] :
        props.isPublicAccess <=> props.clientId = Null }

\* The statuses the authenticated listing asks for.
PortalStatusParams == {"approved", "sent", "accepted"}

NoSelection == [id |-> 0, status |-> Null, client_name |-> Null]

PortalProposal(p) == [id |-> p, status |-> srvStatus[p], client_name |-> ClientOf[p]]

RECURSIVE ListOf(_, _)
\* The proposals of the set S from id p on, in id order.
ListOf(S, p) ==
    IF p > Cardinality(PIDs) THEN <<>>
    ELSE (IF p \in S THEN <<PortalProposal(p)>> ELSE <<>>) \o ListOf(S, p + 1)

\* GET /api/v1/proposals/?status=...: the proposals assigned to the client
\* the token identifies, in the statuses asked for.
ListForClient(identity, statuses) ==
    ListOf({ p \in PIDs : ClientOf[p] = identity /\ srvStatus[p] \in statuses }, 1)

\* A request of the portal.  shareToken is the token in its URL (Null: none),
\* pid the proposal id in its URL (0: none), format the export format in its
\* URL (Null: none), auth its Authorization header.
NewPortalCall(kind, shareToken, auth, pid, format) ==
    [id |-> portalSeq + 1, kind |-> kind, shareToken |-> shareToken, auth |-> auth,
     pid |-> pid, format |-> format, stage |-> "sent", ok |-> FALSE, list |-> <<>>]

\* The Authorization header: '' (Null) with public access, else the token
\* in localStorage.
PortalAuth == IF portalProps.isPublicAccess THEN Null ELSE viewer

\* A request that carries another client's token.
FetchCallForOtherClient(props, id) ==
    [id |-> id, kind |-> "list",
     shareToken |-> IF props.isPublicAccess /\ props.shareToken # Null
                    THEN props.shareToken ELSE Null,
     auth |-> IF props.isPublicAccess THEN Null
              ELSE CHOOSE other \in Clients : other # viewer,
     pid |-> 0, format |-> Null, stage |-> "sent", ok |-> FALSE, list |-> <<>>]

\* fetchClientProposals up to its fetch, under the props `props`; id numbers
\* the request.
FetchCallFor(props, id) ==
    [id |-> id, kind |-> "list",
     shareToken |-> IF props.isPublicAccess /\ props.shareToken # Null
                    THEN props.shareToken ELSE Null,
     auth |-> IF props.isPublicAccess THEN Null ELSE viewer,
     pid |-> 0, format |-> Null, stage |-> "sent", ok |-> FALSE, list |-> <<>>]

\* The portal shows its lists and tabs: not the spinner, not the error box,
\* not "No Proposals Available".
PortalShown == ~portalLoading /\ portalError = Null /\ Len(portalProposals) > 0

\* ---- the store serves a fetch of the portal ----
ServePortalCall(c, fails) ==
    /\ c \in portalCalls
    /\ c.stage = "sent"
    /\ LET done(r) == portalCalls' = (portalCalls \ {c}) \cup {[r EXCEPT !.stage = "done"]}
           shared == { p \in PIDs : ShareTokenOf[p] = c.shareToken }
       IN
       IF fails THEN c.kind = "list" /\ done(c)
       ELSE CASE c.kind = "list" /\ c.shareToken # Null ->
                   \* /api/v1/proposals/shared/${shareToken}: one object
                   IF shared = {} THEN done(c)
                   ELSE done([c EXCEPT !.ok = TRUE, !.list = ListOf(shared, 1)])
              [] c.kind = "list" /\ c.shareToken = Null ->
                   IF c.auth = Null THEN done(c)
                   ELSE done([c EXCEPT !.ok = TRUE,
                                       !.list = ListForClient(c.auth, PortalStatusParams)])
              [] OTHER ->  \* project-status, export
                   IF c.auth # Null /\ ClientOf[c.pid] = c.auth
                   THEN done([c EXCEPT !.ok = TRUE])
                   ELSE done(c)
    /\ UNCHANGED <<viewer, portalProps, portalProposals, portalSelected, projectStatus,
                   portalLoading, portalError, portalTab, portalSeq>>
    /\ UNCHANGED <<storeVars, outsidePortal>>

\* ---- continuations ----
\* fetchClientProposals after its fetch.  A new selectedProposal runs the
\* effect that calls fetchProjectStatus, which runs to its own fetch.
FetchProposalsReturns(c) ==
    /\ c \in portalCalls /\ c.kind = "list" /\ c.stage = "done"
    /\ portalLoading' = FALSE
    /\ IF c.ok
       THEN /\ portalProposals' = c.list
            /\ UNCHANGED portalError
            /\ IF Len(c.list) > 0
               THEN /\ portalSelected' = c.list[1]
                    /\ portalCalls' = (portalCalls \ {c})
                          \cup {NewPortalCall("status", Null, PortalAuth, c.list[1].id, Null)}
                    /\ portalSeq' = portalSeq + 1
               ELSE /\ portalCalls' = portalCalls \ {c}
                    /\ UNCHANGED <<portalSelected, portalSeq>>
       ELSE /\ portalError' = "Failed to fetch proposals"
            /\ portalCalls' = portalCalls \ {c}
            /\ UNCHANGED <<portalProposals, portalSelected, portalSeq>>
    /\ UNCHANGED <<viewer, portalProps, projectStatus, portalTab>>
    /\ UNCHANGED <<storeVars, outsidePortal>>

\* fetchProjectStatus after its fetch (a failure is only logged).
ProjectStatusReturns(c) ==
    /\ c \in portalCalls /\ c.kind = "status" /\ c.stage = "done"
    /\ portalCalls' = portalCalls \ {c}
    /\ projectStatus' = IF c.ok THEN c.pid ELSE projectStatus
    /\ UNCHANGED <<viewer, portalProps, portalProposals, portalSelected, portalLoading,
                   portalError, portalTab, portalSeq>>
    /\ UNCHANGED <<storeVars, outsidePortal>>

\* ---- rendering and UI handlers ----
\* The parent renders the portal with other props; the effect on
\* [clientId, shareToken] runs fetchClientProposals to its fetch.
RenderPortal(props) ==
    /\ props \in PortalPropsOf(viewer)
    /\ props # portalProps
    /\ portalProps' = props
    /\ IF props.clientId # portalProps.clientId \/ props.shareToken # portalProps.shareToken
       THEN /\ portalSeq < MaxPortalCalls
            /\ portalLoading' = TRUE
            /\ portalError' = Null
            /\ portalCalls' = portalCalls \cup {FetchCallFor(props, portalSeq + 1)}
            /\ portalSeq' = portalSeq + 1
       ELSE UNCHANGED <<portalLoading, portalError, portalCalls, portalSeq>>
    /\ UNCHANGED <<viewer, portalProposals, portalSelected, projectStatus, portalTab>>
    /\ UNCHANGED <<storeVars, outsidePortal>>

\* A row of the sidebar is clicked: setSelectedProposal(proposal), and the
\* effect on [selectedProposal] calls fetchProjectStatus.
SelectProposal(k) ==
    /\ PortalShown
    /\ k \in 1..Len(portalProposals)
    /\ portalProposals[k] # portalSelected
    /\ portalSeq < MaxPortalCalls
    /\ portalSelected' = portalProposals[k]
    /\ portalCalls' = portalCalls
          \cup {NewPortalCall("status", Null, PortalAuth, portalProposals[k].id, Null)}
    /\ portalSeq' = portalSeq + 1
    /\ UNCHANGED <<viewer, portalProps, portalProposals, projectStatus, portalLoading,
                   portalError, portalTab>>
    /\ UNCHANGED <<storeVars, outsidePortal>>

ExportFormats == {"pdf", "html"}

\* "Download PDF" / "View HTML" of the proposal tab, up to the fetch.
handleExportProposal(format) ==
    /\ PortalShown
    /\ portalSelected # NoSelection
    /\ portalTab = "proposals"
    /\ format \in ExportFormats
    /\ portalSeq < MaxPortalCalls
    /\ portalCalls' = portalCalls
          \cup {NewPortalCall("export", Null, PortalAuth, portalSelected.id, format)}
    /\ portalSeq' = portalSeq + 1
    /\ UNCHANGED <<viewer, portalProps, portalProposals, portalSelected, projectStatus,
                   portalLoading, portalError, portalTab>>
    /\ UNCHANGED <<storeVars, outsidePortal>>

\* handleExportProposal after its fetch: the blob is handed to the browser,
\* a failure is only logged; the component's state stays as it is.
ExportReturns(c) ==
    /\ c \in portalCalls /\ c.kind = "export" /\ c.stage = "done"
    /\ portalCalls' = portalCalls \ {c}
    /\ UNCHANGED <<viewer, portalProps, portalProposals, portalSelected, projectStatus,
                   portalLoading, portalError, portalTab, portalSeq>>
    /\ UNCHANGED <<storeVars, outsidePortal>>

PortalTabs == {"proposals", "progress", "timeline"}

SetPortalTab(tab) ==
    /\ PortalShown
    /\ portalSelected # NoSelection
    /\ tab \in PortalTabs
    /\ tab # portalTab
    /\ portalTab' = tab
    /\ UNCHANGED <<viewer, portalProps, portalProposals, portalSelected, projectStatus,
                   portalLoading, portalError, portalCalls, portalSeq>>
    /\ UNCHANGED <<storeVars, outsidePortal>>

\* The portal after mounting for the client `c` under the props `props`:
\* fetchClientProposals has run to its fetch.
InitPortalFor(c, props) ==
    /\ viewer = c
    /\ portalProps = props
    /\ portalProposals = <<>>
    /\ portalSelected = NoSelection
    /\ projectStatus = 0
    /\ portalLoading = TRUE
    /\ portalError = Null
    /\ portalTab = "proposals"
    /\ portalCalls = {FetchCallFor(props, 1)}
    /\ portalSeq = 1

InitPortalVars ==
    InitPortalFor("c1", [clientId |-> "c1", shareToken |-> Null, isPublicAccess |-> FALSE])

\* ========================================================================
\* Authentication guide: roles, token storage, ProtectedRoute
\* ========================================================================
\* The role strings a stored user record can carry ("guest" stands for any
\* string outside the hierarchy).
RoleStrings == Roles \cup {"guest"}

\* requiredRole?: 'client' | 'project_manager' | 'admin'  (Null: not given)
RequiredRoles == Roles \cup {Null}

Undefined == -1

\* const roleHierarchy = { 'client': 1, 'project_manager': 2, 'admin': 3 };
\* a lookup of any other key yields undefined.
roleHierarchy(r) ==
    CASE r = "client" -> 1
      [] r = "project_manager" -> 2
      [] r = "admin" -> 3
      [] OTHER -> Undefined

\* JavaScript a >= b on number | undefined: false when either is undefined.
JsGe(a, b) == a # Undefined /\ b # Undefined /\ a >= b

hasRequiredRoleStrict(userRole, requiredRole) ==
    /\ roleHierarchy(userRole) # Undefined
    /\ roleHierarchy(requiredRole) # Undefined
    /\ roleHierarchy(userRole) > roleHierarchy(requiredRole)

hasRequiredRole(userRole, requiredRole) ==
    JsGe(roleHierarchy(userRole), roleHierarchy(requiredRole))

\* getCurrentUser(): the user kept by storeAuthTokens (its role stands for
\* the record; the route gate reads nothing else of it).
getCurrentUser == lsUser

\* What the ProtectedRoute component returns for the props p.
ProtectedRoute(p) ==
    LET currentUser == getCurrentUser IN
    IF currentUser = Null THEN "/login"
    ELSE IF p.requiredRole # Null /\ ~hasRequiredRole(currentUser, p.requiredRole)
         THEN "/unauthorized"
    ELSE IF p.children THEN "children" ELSE "component"

\* login(): loginUser succeeded, storeAuthTokens(response).
Login(role) ==
    /\ issued < MaxLogins
    /\ issued' = issued + 1
    /\ lsAccessToken' = issued + 1
    /\ lsRefreshToken' = issued + 1
    /\ lsUser' = role
    /\ UNCHANGED <<route, rendered, lsToken, refreshVars>>
    /\ UNCHANGED outsideAuth

\* logout(): clearAuthTokens().
Logout ==
    /\ lsUser # Null
    /\ lsAccessToken' = NoToken
    /\ lsRefreshToken' = NoToken
    /\ lsUser' = Null
    /\ UNCHANGED <<issued, route, rendered, lsToken, refreshVars>>
    /\ UNCHANGED outsideAuth

\* The router renders a ProtectedRoute with the given props.
Navigate(req, ch) ==
    /\ route' = [requiredRole |-> req, children |-> ch]
    /\ rendered' = ProtectedRoute(route')
    /\ UNCHANGED <<lsAccessToken, lsRefreshToken, lsUser, issued, lsToken, refreshVars>>
    /\ UNCHANGED outsideAuth

\* ---- refreshAccessToken ----
\* What the auth service answers to POST /auth/refresh: a new token pair, a
\* refusal (the refresh token is expired or revoked: InvalidToken), or
\* nothing at all (the fetch rejects).
RefreshOutcomes == {"ok", "InvalidToken", "NetworkError"}

\* refreshAccessToken up to its fetch; without a stored refresh token it
\* returns null at once.
refreshAccessToken ==
    /\ IF lsRefreshToken = NoToken
       THEN /\ refreshResult' = <<NoToken>>
            /\ UNCHANGED <<refreshCalls, refreshSeq>>
       ELSE /\ refreshSeq < MaxRefresh
            /\ refreshCalls' = refreshCalls \cup
                  {[id |-> refreshSeq + 1, refresh_token |-> lsRefreshToken,
                    stage |-> "sent", outcome |-> Null, pair |-> NoToken]}
            /\ refreshSeq' = refreshSeq + 1
            /\ UNCHANGED refreshResult
    /\ UNCHANGED <<lsAccessToken, lsRefreshToken, lsUser, issued, route, rendered,
                   lsToken, location>>
    /\ UNCHANGED outsideAuth

\* The auth service answers a refresh request.
ServeRefresh(c, outcome) ==
    /\ c \in refreshCalls
    /\ c.stage = "sent"
    /\ IF outcome = "ok"
       THEN /\ issued < MaxLogins
            /\ issued' = issued + 1
            /\ refreshCalls' = (refreshCalls \ {c}) \cup
                  {[c EXCEPT !.stage = "done", !.outcome = outcome, !.pair = issued + 1]}
       ELSE /\ refreshCalls' = (refreshCalls \ {c}) \cup
                  {[c EXCEPT !.stage = "done", !.outcome = outcome]}
            /\ UNCHANGED issued
    /\ UNCHANGED <<lsAccessToken, lsRefreshToken, lsUser, route, rendered, lsToken,
                   refreshSeq, refreshResult, location>>
    /\ UNCHANGED outsideAuth

\* A continuation that returns null on a failure and leaves the storage as
\* it is.
RefreshReturnsKeepingTokens(c) ==
    /\ c \in refreshCalls /\ c.stage = "done"
    /\ refreshCalls' = refreshCalls \ {c}
    /\ IF c.outcome = "ok"
       THEN /\ lsAccessToken' = c.pair
            /\ lsRefreshToken' = c.pair
            /\ refreshResult' = <<c.pair>>
            /\ UNCHANGED <<lsUser, location>>
       ELSE /\ refreshResult' = <<NoToken>>
            /\ UNCHANGED <<lsAccessToken, lsRefreshToken, lsUser, location>>
    /\ UNCHANGED <<issued, route, rendered, lsToken, refreshSeq>>
    /\ UNCHANGED outsideAuth

\* refreshAccessToken after its fetch: the new pair is stored, or (non-OK
\* response, rejected fetch) clearAuthTokens() and the redirect to /login.
RefreshReturns(c) ==
    /\ c \in refreshCalls /\ c.stage = "done"
    /\ refreshCalls' = refreshCalls \ {c}
    /\ IF c.outcome = "ok"
       THEN /\ lsAccessToken' = c.pair
            /\ lsRefreshToken' = c.pair
            /\ refreshResult' = <<c.pair>>
            /\ UNCHANGED <<lsUser, location>>
       ELSE /\ lsAccessToken' = NoToken
            /\ lsRefreshToken' = NoToken
            /\ lsUser' = Null
            /\ location' = "/login"
            /\ refreshResult' = <<NoToken>>
    /\ UNCHANGED <<issued, route, rendered, lsToken, refreshSeq>>
    /\ UNCHANGED outsideAuth

InitAuthVars ==
    /\ lsAccessToken = NoToken
    /\ lsRefreshToken = NoToken
    /\ lsUser = Null
    /\ issued = 0
    /\ route = [requiredRole |-> Null, children |-> FALSE]
    /\ rendered = Null
    /\ lsToken = NoToken
    /\ refreshCalls = {}
    /\ refreshSeq = 0
    /\ refreshResult = <<>>
    /\ location = "/"

\* ========================================================================
\* ProposalDatabaseInterface
\* ========================================================================
\* Of the SearchFilters, status_filter is operated; the other filters stay
\* at their initial values, so applyFilters lets every proposal through, and
\* the list fits one page, so currentPage stays 1.
InitialSearchFilters == [status_filter |-> {}]

\* The values the Status Autocomplete of the filter dialog is set to.
StatusFilterChoices == {{}, {"draft"}, {"approved"}}

\* status is the query parameter searchFilters.status_filter.join(',').
DbCall(id, filter) ==
    [id |-> id, status |-> filter, stage |-> "sent", ok |-> FALSE, list |-> <<>>]

\* The rows the store returns under ?status=...
RowsWithStatus(filter) ==
    IF filter = {} THEN ProposalSummaries
    ELSE SelectSeq(ProposalSummaries, LAMBDA r : r.status \in filter)

\* applyFilters: the client-side filters (client, user, tags, priority) are
\* all empty.
applyFilters(list) == list

\* The page can be operated: not the spinner, no modal dialog.
DbPageShown ==
    /\ ~(dbLoading /\ Len(dbProposals) = 0)
    /\ ~filterDialogOpen
    /\ ~comparisonDialogOpen

\* The store serves a fetch of loadProposals.
ServeDbCall(c, fails) ==
    /\ c \in dbCalls
    /\ c.stage = "sent"
    /\ dbCalls' = (dbCalls \ {c}) \cup
          {IF fails THEN [c EXCEPT !.stage = "done"]
           ELSE [c EXCEPT !.stage = "done", !.ok = TRUE, !.list = RowsWithStatus(c.status)]}
    /\ UNCHANGED <<dbProposals, filteredProposals, dbLoading, dbError, searchFilters,
                   filterDialogOpen, comparisonDialogOpen, dbSelected, comparisonData,
                   dbSeq, dbHandled>>
    /\ UNCHANGED <<storeVars, outsideDb>>

\* loadProposals after its fetch; the new proposals state runs the effect
\* that calls applyFilters.
DbProposalsReturn(c) ==
    /\ c \in dbCalls /\ c.stage = "done"
    /\ dbCalls' = dbCalls \ {c}
    /\ dbHandled' = dbHandled \cup {[id |-> c.id, ok |-> c.ok]}
    /\ dbLoading' = FALSE
    /\ IF c.ok
       THEN /\ dbProposals' = c.list
            /\ filteredProposals' = applyFilters(c.list)
            /\ UNCHANGED dbError
       ELSE /\ dbError' = "Failed to load proposals"
            /\ UNCHANGED <<dbProposals, filteredProposals>>
    /\ UNCHANGED <<searchFilters, filterDialogOpen, comparisonDialogOpen, dbSelected,
                   comparisonData, dbSeq>>
    /\ UNCHANGED <<storeVars, outsideDb>>

\* handleFilterChange('status_filter', value) from the filter dialog: the
\* new searchFilters object runs both effects, loadProposals (to its fetch)
\* and applyFilters.
handleFilterChange(value) ==
    /\ ~(dbLoading /\ Len(dbProposals) = 0)
    /\ filterDialogOpen
    /\ value \in StatusFilterChoices
    /\ value # searchFilters.status_filter
    /\ dbSeq < MaxDbCalls
    /\ searchFilters' = [searchFilters EXCEPT !.status_filter = value]
    /\ dbLoading' = TRUE
    /\ dbCalls' = dbCalls \cup {DbCall(dbSeq + 1, value)}
    /\ dbSeq' = dbSeq + 1
    /\ filteredProposals' = applyFilters(dbProposals)
    /\ UNCHANGED <<dbProposals, dbError, filterDialogOpen, comparisonDialogOpen,
                   dbSelected, comparisonData, dbHandled>>
    /\ UNCHANGED <<storeVars, outsideDb>>

\* clearFilters (the Clear button of the page, Clear All of the dialog): a
\* new searchFilters object, so both effects run.
clearFilters ==
    /\ ~(dbLoading /\ Len(dbProposals) = 0)
    /\ ~comparisonDialogOpen
    /\ dbSeq < MaxDbCalls
    /\ searchFilters' = InitialSearchFilters
    /\ dbLoading' = TRUE
    /\ dbCalls' = dbCalls \cup {DbCall(dbSeq + 1, InitialSearchFilters.status_filter)}
    /\ dbSeq' = dbSeq + 1
    /\ filteredProposals' = applyFilters(dbProposals)
    /\ UNCHANGED <<dbProposals, dbError, filterDialogOpen, comparisonDialogOpen,
                   dbSelected, comparisonData, dbHandled>>
    /\ UNCHANGED <<storeVars, outsideDb>>

\* The refresh icon: loadProposals with the current filters, to its fetch.
refreshProposals ==
    /\ DbPageShown
    /\ dbSeq < MaxDbCalls
    /\ dbLoading' = TRUE
    /\ dbCalls' = dbCalls \cup {DbCall(dbSeq + 1, searchFilters.status_filter)}
    /\ dbSeq' = dbSeq + 1
    /\ UNCHANGED <<dbProposals, filteredProposals, dbError, searchFilters,
                   filterDialogOpen, comparisonDialogOpen, dbSelected, comparisonData,
                   dbHandled>>
    /\ UNCHANGED <<storeVars, outsideDb>>

\* The Filters button, and the filter dialog's Close button and onClose.
SetFilterDialogOpen(open) ==
    /\ IF open THEN DbPageShown
               ELSE filterDialogOpen /\ ~(dbLoading /\ Len(dbProposals) = 0)
    /\ filterDialogOpen' = open
    /\ UNCHANGED <<dbProposals, filteredProposals, dbLoading, dbError, searchFilters,
                   comparisonDialogOpen, dbSelected, comparisonData, dbCalls, dbSeq,
                   dbHandled>>
    /\ UNCHANGED <<storeVars, outsideDb>>

\* The checkbox of row k: handleProposalSelection(id, !checked).
handleProposalSelection(k) ==
    /\ DbPageShown
    /\ k \in 1..Len(filteredProposals)
    /\ LET pid == filteredProposals[k].id
           checked == \E j \in 1..Len(dbSelected) : dbSelected[j] = pid
       IN dbSelected' = IF checked THEN SelectSeq(dbSelected, LAMBDA x : x # pid)
                        ELSE Append(dbSelected, pid)
    /\ UNCHANGED <<dbProposals, filteredProposals, dbLoading, dbError, searchFilters,
                   filterDialogOpen, comparisonDialogOpen, comparisonData, dbCalls,
                   dbSeq, dbHandled>>
    /\ UNCHANGED <<storeVars, outsideDb>>

\* The checkbox of the table head: handleSelectAll(!checked).
handleSelectAll ==
    /\ DbPageShown
    /\ LET checked == Len(filteredProposals) > 0
                      /\ Len(dbSelected) = Len(filteredProposals)
       IN dbSelected' = IF checked THEN <<>>
                        ELSE [k \in 1..Len(filteredProposals) |-> filteredProposals[k].id]
    /\ UNCHANGED <<dbProposals, filteredProposals, dbLoading, dbError, searchFilters,
                   filterDialogOpen, comparisonDialogOpen, comparisonData, dbCalls,
                   dbSeq, dbHandled>>
    /\ UNCHANGED <<storeVars, outsideDb>>

\* handleCompareProposals: the Compare button, disabled with fewer than 2
\* selected (so the handler's own check never fires); setLoading(true) and
\* the finally's setLoading(false) fall into one render.
handleCompareProposals ==
    LET selectedData ==
            SelectSeq(filteredProposals,
                      LAMBDA r : \E j \in 1..Len(dbSelected) : dbSelected[j] = r.id)
    IN
    /\ DbPageShown
    /\ Len(dbSelected) >= 2
    /\ comparisonData' = <<selectedData>>
    /\ comparisonDialogOpen' = TRUE
    /\ dbLoading' = FALSE
    /\ UNCHANGED <<dbProposals, filteredProposals, dbError, searchFilters,
                   filterDialogOpen, dbSelected, dbCalls, dbSeq, dbHandled>>
    /\ UNCHANGED <<storeVars, outsideDb>>

\* The comparison dialog's Close button and its onClose.
CloseComparisonDialog ==
    /\ comparisonDialogOpen
    /\ ~(dbLoading /\ Len(dbProposals) = 0)
    /\ comparisonDialogOpen' = FALSE
    /\ UNCHANGED <<dbProposals, filteredProposals, dbLoading, dbError, searchFilters,
                   filterDialogOpen, dbSelected, comparisonData, dbCalls, dbSeq,
                   dbHandled>>
    /\ UNCHANGED <<storeVars, outsideDb>>

\* The error Alert's onClose.
DismissDbError ==
    /\ DbPageShown
    /\ dbError # Null
    /\ dbError' = Null
    /\ UNCHANGED <<dbProposals, filteredProposals, dbLoading, searchFilters,
                   filterDialogOpen, comparisonDialogOpen, dbSelected, comparisonData,
                   dbCalls, dbSeq, dbHandled>>
    /\ UNCHANGED <<storeVars, outsideDb>>

\* The component after mounting: both effects have run, loadProposals to
\* its fetch.
InitDbVars ==
    /\ dbProposals = <<>>
    /\ filteredProposals = <<>>
    /\ dbLoading = TRUE
    /\ dbError = Null
    /\ searchFilters = InitialSearchFilters
    /\ filterDialogOpen = FALSE
    /\ comparisonDialogOpen = FALSE
    /\ dbSelected = <<>>
    /\ comparisonData = <<>>
    /\ dbCalls = {DbCall(1, InitialSearchFilters.status_filter)}
    /\ dbSeq = 1
    /\ dbHandled = {}

\* ========================================================================
\* Specifications: one per component
\* ========================================================================
InitAuth ==
    /\ InitDbVars
    /\ InitAuthVars /\ InitUploadVars /\ InitStoreVars /\ InitEditorVars
    /\ InitDashVars /\ InitPortalVars

NextAuth ==
    \/ \E r \in RoleStrings : Login(r)
    \/ Logout
    \/ \E req \in RequiredRoles, ch \in BOOLEAN : Navigate(req, ch)
    \/ refreshAccessToken
    \/ \E c \in refreshCalls, o \in RefreshOutcomes : ServeRefresh(c, o)
    \/ \E c \in refreshCalls : RefreshReturns(c)

SpecAuth == InitAuth /\ [][NextAuth]_vars

InitUpload ==
    /\ InitDbVars
    /\ InitUploadVars /\ InitAuthVars /\ InitStoreVars /\ InitEditorVars
    /\ InitDashVars /\ InitPortalVars

NextUpload ==
    \/ \E batch \in BatchesOf(MaxBatch) : handleFiles(batch)
    \/ \E b \in batches : \E id \in b.pending : \E o \in UploadOutcomes :
            UploadSettles(b, id, o)
    \/ \E k \in 1..Len(files) : removeFile(files[k].id)
    \/ clearAll
    \/ DismissUploadError

SpecUpload == InitUpload /\ [][NextUpload]_vars

\* The same component when every request that was sent settles: a fetch
\* resolves or rejects, the browser leaves no request pending for ever.
SpecUploadSettling ==
    /\ InitUpload
    /\ [][NextUpload]_vars
    /\ \A id \in 1..MaxFileIds :
          WF_vars(\E b \in batches : \E o \in UploadOutcomes : UploadSettles(b, id, o))

\* A browser session: the auth guide's login and logout next to a mounted
\* TeamDashboard.
InitSession ==
    /\ InitDbVars
    /\ InitAuthVars /\ InitUploadVars /\ InitStoreVars /\ InitEditorVars
    /\ InitDashVars /\ InitPortalVars

NextSession ==
    \/ \E r \in RoleStrings : Login(r)
    \/ Logout
    \/ \E c \in dashCalls, fails \in BOOLEAN : ServeDashCall(c, fails)
    \/ \E c \in dashCalls : OverviewReturns(c)
    \/ \E c \in dashCalls : ProposalsReturn(c)
    \/ \E t \in TabValues : SetActiveTab(t)
    \/ DismissDashError
    \/ loadProposals

SpecSession == InitSession /\ [][NextSession]_vars

\* The editor opened by any user on a proposal in any status.
InitEditor ==
    /\ InitDbVars
    /\ InitAuthVars /\ InitUploadVars /\ InitDashVars /\ InitPortalVars
    /\ srvStatus \in { f \in [PIDs -> {"draft", "sent"}] : f[2] = "draft" }
    /\ srvContent = InitialContent
    /\ user \in EditorUsers
    /\ proposal = NoProposal
    /\ loading = TRUE
    /\ saving = FALSE
    /\ editorError = Null
    /\ editMode = FALSE
    /\ previewMode = FALSE
    /\ sections = <<>>
    /\ selectedSection = Null
    /\ calls = {[id |-> 1, kind |-> "load", newStatus |-> Null, content |-> <<>>,
                 stage |-> "sent", message |-> Null, data |-> NoProposal]}
    /\ callSeq = 1
    /\ addedSections = 0
    /\ onStatusChangeCalls = 0
    /\ onSaveCalls = 0

NextEditor ==
    \/ \E c \in calls, fails \in BOOLEAN : ServeCall(c, fails)
    \/ \E d \in TerminalStatuses : ClientDecision(EditorPid, d)
    \/ \E c \in calls : LoadReturns(c)
    \/ \E c \in calls : SaveReturns(c)
    \/ \E c \in calls : StatusReturns(c)
    \/ \E c \in calls : ExtractReturns(c)
    \/ \E st \in EditorStatusOptions : handleStatusChange(st)
    \/ ToggleEditMode
    \/ TogglePreviewMode
    \/ handleSave
    \/ addSection
    \/ \E k \in 1..Len(sections) : SelectSection(k)
    \/ \E k \in 1..Len(sections) : removeSection(k)
    \/ updateSectionContent(TypedContent)
    \/ handleReExtractRequirements

SpecEditor == InitEditor /\ [][NextEditor]_vars

\* The status controls: an editor opened by a project manager and the
\* dashboard's bulk update work on the same store; the proposal the editor
\* shows starts as a draft or approved, the other one as a draft.
InitStatus ==
    /\ InitDbVars
    /\ InitAuthVars /\ InitUploadVars /\ InitPortalVars
    /\ InitEditorVars /\ InitDashVars
    /\ srvStatus \in { f \in [PIDs -> {"draft", "approved"}] : f[2] = "draft" }
    /\ srvContent = InitialContent

NextStatus ==
    \/ \E c \in calls : ServeCall(c, FALSE)
    \/ \E c \in calls : LoadReturns(c)
    \/ \E c \in calls : StatusReturns(c)
    \/ \E st \in EditorStatusOptions : handleStatusChange(st)
    \/ \E c \in dashCalls, fails \in BOOLEAN : ServeDashCall(c, fails)
    \/ \E c \in dashCalls : OverviewReturns(c)
    \/ \E c \in dashCalls : ProposalsReturn(c)
    \/ \E c \in dashCalls : BulkUpdateReturns(c)
    \/ \E t \in TabValues : SetActiveTab(t)
    \/ DismissDashError
    \/ loadProposals
    \/ \E k \in 1..Len(dashProposals) : ToggleRow(k)
    \/ ToggleAll
    \/ OpenBulkUpdateDialog
    \/ CloseBulkUpdateDialog
    \/ \E v \in BulkStatusOptions : SetBulkStatus(v)
    \/ handleBulkUpdate

SpecStatus == InitStatus /\ [][NextStatus]_vars

\* TeamDashboard's proposals tab: the filter, the selection and the bulk
\* update dialog.
InitDash ==
    /\ InitDbVars
    /\ InitAuthVars /\ InitUploadVars /\ InitPortalVars /\ InitEditorVars
    /\ InitDashVars
    /\ srvStatus \in { f \in [PIDs -> {"draft", "approved"}] : f[2] = "draft" }
    /\ srvContent = InitialContent

NextDash ==
    \/ \E c \in dashCalls, fails \in BOOLEAN : ServeDashCall(c, fails)
    \/ \E c \in dashCalls : OverviewReturns(c)
    \/ \E c \in dashCalls : ProposalsReturn(c)
    \/ \E c \in dashCalls : BulkUpdateReturns(c)
    \/ \E t \in TabValues : SetActiveTab(t)
    \/ DismissDashError
    \/ \E v \in StatusFilterOptions : SetStatusFilter(v)
    \/ loadProposals
    \/ \E k \in 1..Len(dashProposals) : ToggleRow(k)
    \/ ToggleAll
    \/ OpenBulkUpdateDialog
    \/ CloseBulkUpdateDialog
    \/ \E v \in BulkStatusOptions : SetBulkStatus(v)
    \/ handleBulkUpdate

SpecDash == InitDash /\ [][NextDash]_vars

\* TeamDashboard's proposals tab: the assign dialog.
InitAssign ==
    /\ InitDbVars
    /\ InitAuthVars /\ InitUploadVars /\ InitPortalVars /\ InitEditorVars
    /\ InitDashVars
    /\ InitStoreVars

NextAssign ==
    \/ \E c \in dashCalls : ServeDashCall(c, FALSE)
    \/ \E c \in dashCalls : OverviewReturns(c)
    \/ \E c \in dashCalls : ProposalsReturn(c)
    \/ \E c \in dashCalls : AssignReturns(c)
    \/ \E t \in TabValues : SetActiveTab(t)
    \/ DismissDashError
    \/ \E k \in 1..Len(dashProposals) : AssignRow(k)
    \/ OpenAssignDialog
    \/ CloseAssignDialog
    \/ \E v \in Assignees : SetAssignee(v)
    \/ handleAssignProposal

SpecAssign == InitAssign /\ [][NextAssign]_vars

\* ProposalDatabaseInterface over a store of proposals in two statuses.
InitDb ==
    /\ InitAuthVars /\ InitUploadVars /\ InitPortalVars /\ InitEditorVars
    /\ InitDashVars /\ InitDbVars
    /\ srvStatus \in { f \in [PIDs -> {"draft", "approved"}] : f[1] = "draft" }
    /\ srvContent = InitialContent

NextDb ==
    \/ \E c \in dbCalls, fails \in BOOLEAN : ServeDbCall(c, fails)
    \/ \E c \in dbCalls : DbProposalsReturn(c)
    \/ \E v \in StatusFilterChoices : handleFilterChange(v)
    \/ clearFilters
    \/ refreshProposals
    \/ \E open \in BOOLEAN : SetFilterDialogOpen(open)
    \/ \E k \in 1..Len(filteredProposals) : handleProposalSelection(k)
    \/ handleSelectAll
    \/ handleCompareProposals
    \/ CloseComparisonDialog
    \/ DismissDbError

SpecDb == InitDb /\ [][NextDb]_vars

\* The editor of a staff user who changes the status more than once: the
\* load and then status requests, each answered by the store, each response
\* delivered whenever the network delivers it.
InitRace ==
    /\ InitDbVars
    /\ InitAuthVars /\ InitUploadVars /\ InitPortalVars /\ InitDashVars
    /\ srvStatus \in { f \in [PIDs -> {"draft", "in_review"}] : f[2] = "draft" }
    /\ srvContent = InitialContent
    /\ InitEditorVars

NextRace ==
    \/ \E c \in calls : ServeCall(c, FALSE)
    \/ \E c \in calls : LoadReturns(c)
    \/ \E c \in calls : StatusReturns(c)
    \/ \E st \in EditorStatusOptions : handleStatusChangeWithin(st, MaxRaceCalls)

SpecRace == InitRace /\ [][NextRace]_vars

\* The editor of a project manager opened on a draft whose stored content
\* is any of: one AI section, a header section followed by a plain one, an
\* AI section followed by a plain one, markup without any section.
StoredContents ==
    { InitialContent,
      <<SecOpenHeader, "<h1>Proposal</h1>", SecClose, Newline,
        SecOpenPlain, "<p>requirements</p>", SecClose>>,
      <<SecOpenAi, "<h1>Proposal</h1>", SecClose, Newline,
        SecOpenPlain, "<p>requirements</p>", SecClose>>,
      <<"<p>requirements</p>">> }

InitRoundTrip ==
    /\ InitDbVars
    /\ InitAuthVars /\ InitUploadVars /\ InitPortalVars /\ InitDashVars
    /\ InitEditorVars
    /\ srvStatus = [p \in PIDs |-> "draft"]
    /\ srvContent \in StoredContents

NextRoundTrip ==
    \/ \E c \in calls, fails \in BOOLEAN : ServeCall(c, fails)
    \/ \E c \in calls : LoadReturns(c)
    \/ \E c \in calls : SaveReturns(c)
    \/ ToggleEditMode
    \/ handleSave
    \/ \E k \in 1..Len(sections) : SelectSection(k)
    \/ \E k \in 1..Len(sections) : removeSection(k)
    \/ updateSectionContent(TypedContent)

SpecRoundTrip == InitRoundTrip /\ [][NextRoundTrip]_vars

\* The portal mounted for any client under any props, over a store whose
\* proposals are in any of the statuses a proposal passes through.
InitPortal ==
    /\ InitDbVars
    /\ InitAuthVars /\ InitUploadVars /\ InitEditorVars /\ InitDashVars
    /\ srvStatus \in [PIDs -> {"draft", "sent"}]
    /\ srvContent = InitialContent
    /\ \E c \in Clients : \E props \in PortalPropsOf(c) : InitPortalFor(c, props)

NextPortal ==
    \/ \E c \in portalCalls, fails \in BOOLEAN : ServePortalCall(c, fails)
    \/ \E c \in portalCalls : FetchProposalsReturns(c)
    \/ \E c \in portalCalls : ProjectStatusReturns(c)
    \/ \E props \in PortalPropsOf(viewer) : RenderPortal(props)
    \/ \E k \in 1..Len(portalProposals) : SelectProposal(k)
    \/ \E tab \in PortalTabs : SetPortalTab(tab)
    \/ \E format \in ExportFormats : handleExportProposal(format)
    \/ \E c \in portalCalls : ExportReturns(c)

SpecPortal == InitPortal /\ [][NextPortal]_vars

\* ------------------------------------------------------------------------
\* C3: a file whose size is greater than maxFileSize is never in the files
\* list and no upload request is ever sent for it.
\* ------------------------------------------------------------------------
C3_OversizeRejected ==
    /\ \A k \in 1..Len(files) : files[k].file_size <= maxFileSize
    /\ \A p \in posted : p.size <= maxFileSize

\* An oversize file was dropped and refused for its size, while another
\* file of the catalogue has been accepted and sent.
C3_Witness ==
    /\ \E k \in 1..Len(uploadError) : uploadError[k].reason = "size"
    /\ posted # {}

\* ------------------------------------------------------------------------
\* C4: an upload request is sent only for files that have an extension whose
\* lower-cased form is in allowedTypes; other files never enter the files
\* list.
\* ------------------------------------------------------------------------
HasAllowedExtension(name) ==
    Len(name) >= 2 /\ ("." \o toLowerCase(name[Len(name)])) \in allowedTypes

C4_OnlyAllowedExtensions ==
    /\ \A p \in posted : HasAllowedExtension(p.name)
    /\ \A k \in 1..Len(files) : HasAllowedExtension(files[k].filename)

\* ------------------------------------------------------------------------
\* C5: the files list holds at most maxFiles entries.
\* ------------------------------------------------------------------------
C5_AtMostMaxFiles == Len(files) <= maxFiles

\* ------------------------------------------------------------------------
\* C10: ProtectedRoute renders the protected component iff a current user
\* exists and either no requiredRole is given or the user's role ranks at
\* least as high as requiredRole in client < project_manager < admin; with
\* no user it redirects to /login, otherwise (insufficient or unknown role
\* against a requiredRole) to /unauthorized.  Stated on every render.
\* ------------------------------------------------------------------------
Rank == [r \in Roles |-> IF r = "client" THEN 1 ELSE IF r = "project_manager" THEN 2 ELSE 3]

RanksAtLeast(userRole, req) ==
    userRole \in Roles /\ req \in Roles /\ Rank[userRole] >= Rank[req]

C10_RouteGate ==
    [][\A req \in RequiredRoles, ch \in BOOLEAN :
         Navigate(req, ch) =>
            LET shown == rendered' \in {"component", "children"} IN
            /\ shown <=> (lsUser # Null /\ (req = Null \/ RanksAtLeast(lsUser, req)))
            /\ lsUser = Null => rendered' = "/login"
            /\ (lsUser # Null /\ ~shown) => rendered' = "/unauthorized"]_vars

\* A project manager is refused an admin route, and a user whose role is
\* outside the hierarchy is refused a client route.
C10_Witness ==
    /\ lsUser \in {"project_manager", "guest"}
    /\ route.requiredRole \in {"admin", "client"}
    /\ rendered = "/unauthorized"

\* ------------------------------------------------------------------------
\* C1: through the editor's status Select and the dashboard's bulk status
\* update the persisted status of a proposal changes only along the edges
\* draft -> in_review -> approved -> sent -> accepted / rejected, and the
\* status the editor and the dashboard rows show is never one the proposal
\* has not reached: a change that is not an edge is applied nowhere.
\* ------------------------------------------------------------------------
Level ==
    [st \in ProposalStatuses |->
        CASE st = "draft" -> 0 [] st = "in_review" -> 1 [] st = "approved" -> 2
          [] st = "sent" -> 3 [] OTHER -> 4]

\* `to` is `from` or lies ahead of it along the edges.
Reaches(from, to) ==
    /\ from \in ProposalStatuses /\ to \in ProposalStatuses
    /\ from = to \/ Level[from] < Level[to]

C1_ForwardOnly ==
    /\ [][\A p \in PIDs : srvStatus'[p] # srvStatus[p]
                            => <<srvStatus[p], srvStatus'[p]>> \in Edges]_vars
    /\ [](/\ proposal # NoProposal => Reaches(proposal.status, srvStatus[EditorPid])
          /\ \A k \in 1..Len(dashProposals) :
                Reaches(dashProposals[k].status, srvStatus[dashProposals[k].id]))

\* The editor's request for a change that is not an edge was refused while
\* a bulk update moved a proposal along draft -> in_review.
C1_Witness ==
    /\ editorError = "InvalidTransition"
    /\ \E p \in PIDs : srvStatus[p] = "in_review"
    /\ dashSeq > 2

\* ------------------------------------------------------------------------
\* C2: when the status update of handleStatusChange fails, the step that
\* handles the failure leaves the editor's proposal (its status included)
\* unchanged, does not call onStatusChange, records the failure in the error
\* state and sends no request; a status request is only ever sent by a
\* handleStatusChange the user's choice started.
\* ------------------------------------------------------------------------
C2_FailedStatusUpdate ==
    [][/\ \A c \in calls :
            (c.kind = "status" /\ c.stage = "err" /\ c \notin calls')
               => /\ proposal' = proposal
                  /\ onStatusChangeCalls' = onStatusChangeCalls
                  /\ editorError' = c.message
                  /\ calls' = calls \ {c}
                  /\ callSeq' = callSeq
       /\ \A c \in calls' \ calls :
            (c.kind = "status" /\ c.stage = "sent")
               => \E st \in EditorStatusOptions : handleStatusChange(st)
      ]_vars

\* A refused status update has been handled: the error is recorded, the
\* proposal still shows the persisted status, and nothing is in flight.
C2_Witness ==
    /\ editorError = "InvalidTransition"
    /\ proposal # NoProposal
    /\ proposal.status = srvStatus[EditorPid]
    /\ onStatusChangeCalls = 0
    /\ calls = {}

\* ------------------------------------------------------------------------
\* C6: the proposals the client portal lists, and the one it has selected,
\* are proposals shared with the viewing client: assigned to that client or
\* carrying a share token the client holds.
\* ------------------------------------------------------------------------
SharedWith(c, p) == ClientOf[p] = c \/ ShareTokenOf[p] \in HeldTokens[c]

C6_OnlySharedListed ==
    /\ \A k \in 1..Len(portalProposals) : SharedWith(viewer, portalProposals[k].id)
    /\ portalSelected # NoSelection => SharedWith(viewer, portalSelected.id)

\* A client's portal shows a list while the other client's proposal, which
\* is not shared with the viewer, is in a status the listing asks for.
C6_Witness ==
    /\ PortalShown
    /\ \E p \in PIDs : /\ ~SharedWith(viewer, p)
                       /\ srvStatus[p] \in PortalStatusParams

\* ------------------------------------------------------------------------
\* C7: for a user whose role is client, editMode is never true and the
\* editor has no updateProposal (content or status) and no
\* extractRequirements call in flight, so none is ever made.
\* ------------------------------------------------------------------------
C7_ClientReadOnly ==
    user = "client" =>
        /\ ~editMode
        /\ \A c \in calls : c.kind = "load"
        /\ callSeq = 1

\* A client has the loaded proposal on screen and has used the one control
\* left to them, the preview.
C7_Witness ==
    /\ user = "client"
    /\ ControlsShown
    /\ previewMode

\* ------------------------------------------------------------------------
\* C8: no content update is in flight from the editor for a proposal whose
\* status, persisted and as the editor shows it, is accepted or rejected.
\* ------------------------------------------------------------------------
C8_NoSaveWhenTerminal ==
    \A c \in calls :
        (c.kind = "save" /\ c.stage = "sent")
           => ~(/\ proposal.status \in TerminalStatuses
                /\ srvStatus[EditorPid] \in TerminalStatuses)

\* ------------------------------------------------------------------------
\* C9: every status a status update request carries, from the editor's
\* Select or from the dashboard's bulk update, is one of draft, in_review,
\* approved, sent, accepted, rejected.
\* ------------------------------------------------------------------------
C9_SubmittedStatusesKnown ==
    /\ \A c \in calls : c.kind = "status" => c.newStatus \in ProposalStatuses
    /\ \A c \in dashCalls :
          (c.kind = "bulk" /\ c.operation.update_data.status # Null)
             => c.operation.update_data.status \in ProposalStatuses

\* ------------------------------------------------------------------------
\* C11: refreshAccessToken either stores the new pair, replacing both the
\* access token and the refresh token, and returns the new access token, or
\* returns null; after a refresh request that failed (refused, or no
\* response) the access token, the refresh token and the user record are
\* gone from storage.  Without a stored refresh token it returns null and
\* sends nothing.
\* ------------------------------------------------------------------------
C11_RefreshOutcome ==
    [][/\ \A c \in refreshCalls :
            (c.stage = "done" /\ c \notin refreshCalls')
               => IF c.outcome = "ok"
                  THEN /\ lsAccessToken' = c.pair /\ lsRefreshToken' = c.pair
                       /\ c.pair # NoToken /\ c.pair # c.refresh_token
                       /\ refreshResult' = <<c.pair>>
                  ELSE /\ lsAccessToken' = NoToken /\ lsRefreshToken' = NoToken
                       /\ lsUser' = Null
                       /\ refreshResult' = <<NoToken>>
       /\ (refreshAccessToken /\ lsRefreshToken = NoToken)
            => refreshResult' = <<NoToken>> /\ refreshCalls' = refreshCalls
      ]_vars

\* A refresh was refused after a login: null was returned, the browser was
\* sent to /login and the storage is empty.
C11_Witness ==
    /\ issued > 0
    /\ refreshSeq > 0
    /\ refreshCalls = {}
    /\ refreshResult = <<NoToken>>
    /\ location = "/login"
    /\ lsAccessToken = NoToken

\* ------------------------------------------------------------------------
\* C12: while the access token of a login is in storage (storeAuthTokens put
\* it there), every request a portal component builds carries that token
\* after "Bearer " in its Authorization header.
\* ------------------------------------------------------------------------
C12_BearerIsLoginToken ==
    [][\A c \in dashCalls' \ dashCalls :
          (c.stage = "sent" /\ lsAccessToken # NoToken)
             => c.authorization = lsAccessToken]_vars

\* ------------------------------------------------------------------------
\* C13: with public access through a share token, every request the portal
\* sends (list, project status, export) has that share token in its address
\* and no bearer token in its Authorization header.
\* ------------------------------------------------------------------------
C13_ShareTokenOnly ==
    [][\A c \in portalCalls' \ portalCalls :
          (c.stage = "sent" /\ portalProps'.isPublicAccess /\ portalProps'.shareToken # Null)
             => c.shareToken = portalProps'.shareToken /\ c.auth = Null]_vars

\* ------------------------------------------------------------------------
\* C14: the file_type sent with an upload is a function of the file's
\* extension, compared without regard to case: two uploads whose names end
\* in the same extension carry the same file_type, and the file_type is one
\* of image, document, spreadsheet, presentation, transcript.
\* ------------------------------------------------------------------------
C14_TypeFromExtension ==
    /\ \A p \in posted :
          p.file_type \in {"image", "document", "spreadsheet", "presentation", "transcript"}
    /\ \A p, q \in posted :
          lastSegment(p.name) = lastSegment(q.name) => p.file_type = q.file_type

\* ------------------------------------------------------------------------
\* C15: no image larger than 10MB passes the upload validation: every
\* upload sent with file_type image is at most 10MB, and every other upload
\* at most 50MB.
\* ------------------------------------------------------------------------
C15_ImageLimit ==
    \A p \in posted :
        p.size <= (IF p.file_type = "image" THEN ImageMaxSize ELSE maxFileSize)

\* ------------------------------------------------------------------------
\* C16: status updates are last-write-wins: once every status request of
\* the editor has been answered and its response handled, the status the
\* editor displays is the status the store persisted last.
\* ------------------------------------------------------------------------
C16_LastWriteWins ==
    (calls = {} /\ proposal # NoProposal) => proposal.status = srvStatus[EditorPid]

\* ------------------------------------------------------------------------
\* C17: when the last request of a batch settles, onUploadComplete receives
\* exactly the files of the list whose upload succeeded (status ready) and
\* the success message reports their number; when no file is ready, neither
\* a callback nor a success message follows.
\* ------------------------------------------------------------------------
C17_CompletionReportsReady ==
    [][\A b \in batches :
          (b \notin batches' /\ Cardinality(batches') < Cardinality(batches))
             => LET ready == SelectSeq(files', LAMBDA f : f.status = "ready") IN
                IF Len(ready) > 0
                THEN lastComplete' = ready /\ success' = <<Len(ready)>>
                ELSE lastComplete' = lastComplete /\ success' = success]_vars

\* ------------------------------------------------------------------------
\* C18: an accepted file enters the list with status uploading; when its
\* request settles its row gets status ready on a success response and
\* error otherwise; a row that is ready or error keeps that status for as
\* long as it is in the list; no request is sent except for newly accepted
\* files (nothing is retried); and every file whose request is pending
\* eventually has no pending request and no row left in status uploading.
\* ------------------------------------------------------------------------
C18_Settled(id) ==
    /\ \A b \in batches : id \notin b.pending
    /\ \A k \in 1..Len(files) :
          /\ files[k].id = id => files[k].status = "error"
          /\ files[k].id = ServerFileId(id) => files[k].status = "ready"

C19_FlagWhileUploading ==
    (\E k \in 1..Len(files) : files[k].status = "uploading") => uploading

\* ------------------------------------------------------------------------
\* C20: handling a batch in which some files are refused and some accepted
\* leaves the validation errors of the refused files in the error state,
\* and nothing but the user's dismissal (the Alert's close, Clear All) or a
\* later batch takes them away: not the start of the uploads, not their
\* completion.
\* ------------------------------------------------------------------------
C20_ValidationErrorsKept ==
    [][/\ \A batch \in BatchesOf(MaxBatch) :
            (handleFiles(batch) /\ Len(ValidationErrors(batch, Len(files))) > 0)
               => uploadError' = ValidationErrors(batch, Len(files))
       /\ \A b \in batches : \A id \in b.pending : \A o \in UploadOutcomes :
            UploadSettles(b, id, o) => uploadError' = uploadError
      ]_vars

\* ------------------------------------------------------------------------
\* C21: selectedProposals holds no id twice and only ids of the proposals
\* the table lists, whatever rows were selected, filters applied and lists
\* reloaded.
\* ------------------------------------------------------------------------
C21_SelectionIsListed ==
    /\ \A i, j \in 1..Len(selectedProposals) :
          i # j => selectedProposals[i] # selectedProposals[j]
    /\ \A i \in 1..Len(selectedProposals) :
          \E k \in 1..Len(dashProposals) : dashProposals[k].id = selectedProposals[i]

\* ------------------------------------------------------------------------
\* C22: the request handleBulkUpdate sends is the bulk operation with
\* exactly the selected ids; when its result is a success the dialog is
\* closed, the selection emptied and the bulk operation reset to its initial
\* value; when the request fails or the result is no success the selection,
\* the dialog and the bulk operation stay as they are and an error is set.
\* ------------------------------------------------------------------------
C22_BulkUpdateEffect ==
    [][/\ \A c \in dashCalls' \ dashCalls :
            (c.kind = "bulk" /\ c.stage = "sent")
               => /\ c.operation.proposal_ids = selectedProposals
                  /\ c.operation.operation_type = bulkOperation.operation_type
                  /\ c.operation.update_data = bulkOperation.update_data
       /\ \A c \in dashCalls \ dashCalls' :
            (c.kind = "bulk" /\ c.stage = "done")
               => IF c.ok /\ c.success
                  THEN /\ ~bulkUpdateDialogOpen'
                       /\ selectedProposals' = <<>>
                       /\ bulkOperation' = InitialBulkOperation
                  ELSE /\ bulkUpdateDialogOpen' = bulkUpdateDialogOpen
                       /\ selectedProposals' = selectedProposals
                       /\ bulkOperation' = bulkOperation
                       /\ dashError' # Null
      ]_vars

\* A bulk update came back with errors: the dialog is still open over the
\* selection and the error is set.
C22_Witness ==
    /\ bulkUpdateDialogOpen
    /\ Len(selectedProposals) > 0
    /\ bulkOperation.update_data.status # Null
    /\ \A c \in dashCalls : c.kind # "bulk"
    /\ dashError \notin {Null, "Failed to load proposals", "Failed to load dashboard data",
                          "Failed to perform bulk update"}

\* ------------------------------------------------------------------------
\* C23: every request handleAssignProposal sends names a proposal, the one
\* selected for assignment, however the assign dialog was opened (row icon,
\* toolbar button) and whatever was assigned or cancelled before.
\* ------------------------------------------------------------------------
C23_AssignNamesSelected ==
    [][\A c \in dashCalls' \ dashCalls :
          (c.kind = "assign" /\ c.stage = "sent")
             => /\ c.assignment.proposal_id # EmptyId
                /\ c.assignment.proposal_id = dashSelected.id]_vars

\* ------------------------------------------------------------------------
\* C24: while the comparison dialog is open, the comparison data hold at
\* least 2 proposals, also when the filters changed between selecting and
\* comparing.
\* ------------------------------------------------------------------------
C24_ComparesAtLeastTwo ==
    comparisonDialogOpen => (comparisonData # <<>> /\ Len(comparisonData[1]) >= 2)

\* ------------------------------------------------------------------------
\* C25: once every loadProposals request has been answered and handled, and
\* the request issued last was answered with a list, the proposals shown are
\* that list: the store's proposals under the current filters.
\* ------------------------------------------------------------------------
C25_LatestResponseShown ==
    (dbCalls = {} /\ [id |-> dbSeq, ok |-> TRUE] \in dbHandled)
       => dbProposals = RowsWithStatus(searchFilters.status_filter)

\* C26: in ClientPortal, once no project-status request is in flight, a
\* project status that is set is the one of the selected proposal
\* (projectStatus.proposal_id = selectedProposal.id), whatever the order of
\* the selections and of the responses.
C26_StatusOfSelected ==
    ((\A c \in portalCalls : c.kind # "status")
        /\ projectStatus # 0 /\ portalSelected # NoSelection)
       => projectStatus = portalSelected.id

\* Two section lists agree in number, order, content, aiGenerated and
\* editable.
SameSections(a, b) ==
    /\ Len(a) = Len(b)
    /\ \A i \in 1..Len(a) :
          /\ a[i].content = b[i].content
          /\ a[i].aiGenerated = b[i].aiGenerated
          /\ a[i].editable = b[i].editable

\* C27: save and load round trip of the ProposalEditor: parsing the content
\* handleSave builds from the sections on screen gives the same sections
\* again (number, order, content, aiGenerated, editable).
C27_SaveLoadRoundTrip ==
    (proposal # NoProposal /\ sections # <<>>)
       => SameSections(parseContentIntoSections(JoinSections(sections, 1)), sections)

====
